---- MODULE Spec2Model ----
(***************************************************************************)
(* Student Restaurant Finder (src/unnamed/part_000): the remote data       *)
(* client (apiFetch), the session store (saveAuth, loadAuth, logout) and   *)
(* the directory refresh (fetchRestaurants), the filters, the two renders   *)
(* (renderRestaurants, renderMap), the menu viewer and the account         *)
(* handlers, as a state machine of one browser page over its localStorage. *)
(***************************************************************************)
EXTENDS Integers, Sequences, FiniteSets, TLC

VARIABLES
    page,          \* "init" (script evaluated), "ready" (DOMContentLoaded ran), "reloading"
    token,         \* let token            (part_000:35)
    currentUser,   \* let currentUser      (part_000:32)
    store,         \* localStorage: the entries "token" and "currentUser"
    restaurants,   \* let restaurants      (part_000:29)
    listView,      \* el.restaurantList.innerHTML
    cityOptions,   \* el.cityFilter options after the fixed first one
    providerOptions, \* el.providerFilter options after the fixed first one
    listRenders,   \* renderRestaurants calls suspended at await getUserLocation()
    calls,         \* the apiFetch call of each caller: request, settlement, alerts
    googleMaps,    \* environment: typeof google !== "undefined" && google.maps
    geolocation,   \* environment: what the browser does with a geolocation request
    userLocation,  \* let userLocation     (part_000:44)
    map,           \* let map              (part_000:38)
    markers,       \* let markers, the markers shown on the map (part_000:41)
    mapRenders,    \* renderMap calls suspended at await getUserLocation()
    mapRetries,    \* renderMap calls waiting in setTimeout for the Maps script
    cityFilter,    \* el.cityFilter.value
    providerFilter, \* el.providerFilter.value
    searchInput,   \* el.searchInput.value
    menuDisplay,   \* the menu overlay: el.menuDisplay, el.menuTitle, el.menuContent
    loginT,        \* history: token of the latest login response, none after logout
    listBefore,    \* history: the restaurant list when fetchRestaurants started
    menuLog,       \* history: the menu requests under way in the order sent
    lastOp         \* history: the operation that produced this state, with its arguments

\* the browser around the page
envVars == <<googleMaps, geolocation>>

\* the filter controls, the location and the map
browseVars == <<userLocation, map, markers, mapRenders, mapRetries, cityFilter,
                providerFilter, searchInput>>

vars == <<page, token, currentUser, store, restaurants, listView, cityOptions,
          providerOptions, listRenders, calls, googleMaps, geolocation, userLocation,
          map, markers, mapRenders, mapRetries, cityFilter, providerFilter,
          searchInput, menuDisplay, loginT, listBefore, menuLog, lastOp>>

----------------------------------------------------------------------------
(* Bounds of the model. *)

\* apiFetch calls that may be pending at the same time
MaxInFlight == 1
\* length of the restaurant list a response carries
MaxRestaurants == 2
\* length of the directory the filters and the renders are applied to
MaxDirectory == 3
\* renderRestaurants calls suspended at the same time
MaxRenders == 1
\* renderMap calls suspended at the same time
MaxMapRenders == 2
\* renderMap calls waiting for their retry at the same time
MaxMapRetries == 3
\* courses in the one day of a weekly menu
MaxCourses == 11
\* requests under way at the same time on the page of a visitor opening menus
MaxOpenMenus == 2

----------------------------------------------------------------------------
(* JavaScript values. null and undefined are the two marker strings; an    *)
(* object is a record whose absent properties read as undefined.           *)

Null == "<null>"
Undef == "<undefined>"

\* JavaScript truthiness of a string-or-null-or-undefined value
Truthy(v) == v \notin {Null, Undef, ""}

\* String(v), the conversion localStorage.setItem applies to its value
ToStr(v) == IF v = Undef THEN "undefined" ELSE IF v = Null THEN "null" ELSE v

\* a.includes(b) on strings
Includes(s, sub) ==
    \E i \in 1..(Len(s) - Len(sub) + 1) : SubSeq(s, i, i + Len(sub) - 1) = sub

\* one character of String.prototype.toLowerCase()
LowerChar(c) == CASE c = "A" -> "a" [] c = "B" -> "b" [] OTHER -> c

RECURSIVE ToLowerCase(_)
\* s.toLowerCase()
ToLowerCase(s) ==
    IF s = "" THEN s
    ELSE LowerChar(SubSeq(s, 1, 1)) \o ToLowerCase(SubSeq(s, 2, Len(s)))

RECURSIVE Trim(_)
\* String.prototype.trim()
Trim(s) ==
    IF s = "" THEN s
    ELSE IF SubSeq(s, 1, 1) = " " THEN Trim(SubSeq(s, 2, Len(s)))
    ELSE IF SubSeq(s, Len(s), Len(s)) = " " THEN Trim(SubSeq(s, 1, Len(s) - 1))
    ELSE s

UserKeys == <<"username", "favouriteRestaurant", "email">>

\* a user object: the properties the page reads or writes
JUser(u, f, e) == [ty |-> "obj", username |-> u, favouriteRestaurant |-> f, email |-> e]

JObj(u, f) == JUser(u, f, Undef)
JNull == [ty |-> "null", username |-> Undef, favouriteRestaurant |-> Undef, email |-> Undef]
JUndef == [ty |-> "undefined", username |-> Undef, favouriteRestaurant |-> Undef,
           email |-> Undef]

\* the user objects a login response carries in its data field
Users == {JObj("u", Undef), JObj("v", "r1")}

Tokens == {"t1", "t2"}

----------------------------------------------------------------------------
(* JSON text, as localStorage holds it: the text of an object is the list  *)
(* of its key/value pairs, any other text is raw.                          *)

TextAbsent == [t |-> "absent", s |-> "", pairs |-> <<>>]
TextRaw(s) == [t |-> "raw", s |-> s, pairs |-> <<>>]
TextObj(pairs) == [t |-> "obj", s |-> "", pairs |-> pairs]

RECURSIVE PairsOf(_, _)
PairsOf(v, keys) ==
    IF keys = <<>> THEN <<>>
    ELSE IF v[Head(keys)] = Undef THEN PairsOf(v, Tail(keys))
    ELSE <<(<<Head(keys), v[Head(keys)]>>)>> \o PairsOf(v, Tail(keys))

\* JSON.stringify that writes the first property only
JSONstringifyFirstKey(v) ==
    CASE v.ty = "obj" -> TextObj(PairsOf(v, <<"username">>))
      [] v.ty = "null" -> TextRaw("null")
      [] OTHER -> TextRaw(ToStr(Undef))

\* JSON.stringify(v): properties whose value is undefined are left out;
\* stringify(undefined) is undefined, which setItem then stores as "undefined"
JSONstringify(v) ==
    CASE v.ty = "obj" -> TextObj(PairsOf(v, UserKeys))
      [] v.ty = "null" -> TextRaw("null")
      [] OTHER -> TextRaw(ToStr(Undef))

Lookup(pairs, k) ==
    IF \E i \in 1..Len(pairs) : pairs[i][1] = k
    THEN pairs[CHOOSE i \in 1..Len(pairs) : pairs[i][1] = k][2]
    ELSE Undef

\* JSON.parse(text): ok = FALSE stands for the SyntaxError it throws
JSONparse(txt) ==
    CASE txt.t = "obj" ->
            [ok |-> TRUE,
             value |-> JUser(Lookup(txt.pairs, "username"),
                             Lookup(txt.pairs, "favouriteRestaurant"),
                             Lookup(txt.pairs, "email"))]
      [] txt.t = "raw" /\ txt.s = "null" -> [ok |-> TRUE, value |-> JNull]
      [] OTHER -> [ok |-> FALSE, value |-> JUndef]

----------------------------------------------------------------------------
(* apiFetch (part_000:147-171).                                            *)

HeaderNames == {"Content-Type", "Authorization", "X-Request-Id"}

NoHeaders == [h \in HeaderNames |-> Undef]

\* options.headers as a caller may pass them (none, or some of the three names)
CallerHeaders ==
    {NoHeaders,
     [NoHeaders EXCEPT !["X-Request-Id"] = "42"],
     [NoHeaders EXCEPT !["Content-Type"] = "text/plain", !["X-Request-Id"] = "42"],
     [NoHeaders EXCEPT !["Content-Type"] = "application/json"],
     [NoHeaders EXCEPT !["Authorization"] = "Basic abc"]}

\* options.body: absent, a JSON string, or a FormData instance
BodyKinds == {"none", "json", "formdata"}

Options == [headers : CallerHeaders, body : BodyKinds]

NoOptions == [headers |-> NoHeaders, body |-> "none"]

\* the store asked first: localStorage.getItem("token") || token
AuthTokenStoreFirst(tok, storeTok) == IF Truthy(storeTok) THEN storeTok ELSE tok

\* let authToken = token || localStorage.getItem("token")
AuthToken(tok, storeTok) == IF Truthy(tok) THEN tok ELSE storeTok

\* Content-Type set whatever the body is
BuildHeadersAlwaysJson(tok, storeTok, options) ==
    LET authToken == IF Truthy(tok) THEN tok ELSE storeTok
        h2 == [options.headers EXCEPT !["Content-Type"] = "application/json"]
    IN  IF Truthy(authToken)
        THEN [h2 EXCEPT !["Authorization"] = "Bearer " \o authToken]
        ELSE h2

\* the headers of the request apiFetch hands to fetch
BuildHeaders(tok, storeTok, options) ==
    LET authToken == AuthToken(tok, storeTok)
        h1 == options.headers
        h2 == IF options.body # "formdata"
              THEN [h1 EXCEPT !["Content-Type"] = "application/json"]
              ELSE h1
    IN  IF Truthy(authToken)
        THEN [h2 EXCEPT !["Authorization"] = "Bearer " \o authToken]
        ELSE h2

\* a menu course: an object with a name, or the JSON null
Course(name) == [null |-> FALSE, name |-> name]
NullCourse == [null |-> TRUE, name |-> Undef]

\* the menu fields of a body: courses (daily) and days (weekly), each absent
\* or an array; a day is the array of its courses
Menu(hasCourses, courses, hasDays, days) ==
    [hasCourses |-> hasCourses, courses |-> courses, hasDays |-> hasDays, days |-> days]

NoMenu == Menu(FALSE, <<>>, FALSE, <<>>)

\* a response body: text that is no JSON, the JSON null, a JSON object
\* (message, token, data and the menu are its fields, undefined when missing)
\* or an array
Body(kind, message, tkn, data, list) ==
    [kind |-> kind, message |-> message, token |-> tkn, data |-> data, list |-> list,
     menu |-> NoMenu]

NoBody == Body("none", Undef, Undef, JUndef, <<>>)
BodyUnparsable == Body("unparsable", Undef, Undef, JUndef, <<>>)
BodyNull == Body("null", Undef, Undef, JUndef, <<>>)
BodyObject(message) == Body("object", message, Undef, JUndef, <<>>)
BodyLogin(tkn, data) == Body("object", "ok", tkn, data, <<>>)
BodyArray(list) == Body("array", Undef, Undef, JUndef, list)
BodyMenu(menu) == [BodyObject(Undef) EXCEPT !.menu = menu]

\* what fetch settles with: a rejection (fail is the error's message) or a response
Rejection(m) == [fail |-> m, status |-> 0, body |-> NoBody]
Response(status, body) == [fail |-> Undef, status |-> status, body |-> body]

\* res.ok
Ok(status) == status \in 200..299

\* messages of the errors fetch rejects with (README.md:591-601)
TransportMessages == {"Failed to fetch", "The operation timed out"}

\* message of the SyntaxError res.json() rejects with
SyntaxErrorMessage == "Unexpected end of JSON input"

\* message of the TypeError that reading data.message throws when data is null
NullReadMessage == "Cannot read properties of null (reading 'message')"

\* message fields a server puts in an error body
ServerMessages == {"Not found", "Failed to fetch upstream"}

\* alert text for a failed connection (part_000:168)
NoConnectionText == "Ei yhteyttä palvelimeen"

\* new Error(data.message || `HTTP ${res.status}`) (part_000:164); reading
\* .message of null throws a TypeError instead
ErrorMessage(status, data) ==
    IF data.kind = "null" THEN NullReadMessage
    ELSE IF Truthy(data.message) THEN data.message
    ELSE "HTTP " \o ToString(status)

\* message of the error the try block of apiFetch throws, Undef when it returns
Thrown(outcome) ==
    IF outcome.fail # Undef THEN outcome.fail
    ELSE IF outcome.body.kind = "unparsable" THEN SyntaxErrorMessage
    ELSE IF ~Ok(outcome.status) THEN ErrorMessage(outcome.status, outcome.body)
    ELSE Undef

\* err.message.includes("Failed to fetch") ? "Ei yhteyttä palvelimeen" : err.message
AlertText(message) ==
    IF Includes(message, "Failed to fetch") THEN NoConnectionText ELSE message

\* a catch block that stays silent about bodies that do not parse
CatchSilentOnSyntaxError(message) ==
    [st |-> "rejected", err |-> message,
     alerts |-> IF message = SyntaxErrorMessage THEN <<>> ELSE <<AlertText(message)>>]

\* the catch block: one alert, then the same error is thrown again
Catch(message) ==
    [st |-> "rejected", err |-> message, alerts |-> <<AlertText(message)>>]

\* the settlement of the promise apiFetch returned, and the alerts it raised
Settle(outcome) ==
    IF Thrown(outcome) = Undef
    THEN [st |-> "resolved", err |-> Undef, alerts |-> <<>>]
    ELSE Catch(Thrown(outcome))

----------------------------------------------------------------------------
(* Session store (part_000:179-218).                                       *)

\* localStorage.getItem("currentUser") is truthy: present and not empty
TextTruthy(txt) == txt.t # "absent" /\ ~(txt.t = "raw" /\ txt.s = "")

\* saveAuth that leaves localStorage as it was
SaveAuthMemoryOnly(user, tkn) ==
    [token |-> tkn, currentUser |-> user, store |-> store]

\* saveAuth(user, tkn): the in-memory pair and the two entries of the store
SaveAuth(user, tkn) ==
    [token |-> tkn,
     currentUser |-> user,
     store |-> [token |-> ToStr(tkn), currentUser |-> JSONstringify(user)]]

\* loadAuth without the try block around JSON.parse
LoadAuthUnguarded(st, user) ==
    LET stored == st.currentUser
        parsed == JSONparse(stored)
    IN  [token |-> st.token,
         currentUser |-> IF Truthy(st.token) /\ TextTruthy(stored) /\ parsed.ok
                         THEN parsed.value
                         ELSE user,
         threw |-> Truthy(st.token) /\ TextTruthy(stored) /\ ~parsed.ok]

\* loadAuth(): token is read in any case; the user only when both entries
\* are truthy and the stored text parses (the SyntaxError is caught and logged)
LoadAuth(st, user) ==
    LET stored == st.currentUser
        parsed == JSONparse(stored)
    IN  [token |-> st.token,
         currentUser |-> IF Truthy(st.token) /\ TextTruthy(stored) /\ parsed.ok
                         THEN parsed.value
                         ELSE user,
         threw |-> FALSE]

\* logout that removes the token entry only
LogoutKeepsUser ==
    [token |-> Null,
     currentUser |-> JNull,
     store |-> [store EXCEPT !.token = Null]]

\* logout(): both in-memory values null, both entries removed
Logout ==
    [token |-> Null,
     currentUser |-> JNull,
     store |-> [token |-> Null, currentUser |-> TextAbsent]]

----------------------------------------------------------------------------
(* Restaurant directory (part_000:773-815).                                *)

\* r.location?.coordinates of a restaurant that has none
NoCoordinates == Undef

\* a restaurant: _id, name, city, company and location.coordinates (a place)
Restaurant(id, name, city, company, coordinates) ==
    [id |-> id, name |-> name, city |-> city, company |-> company,
     coordinates |-> coordinates]

RestaurantPool ==
    {Restaurant("r1", "A", "Helsinki", "Sodexo", "far"),
     Restaurant("r2", "B", "Espoo", "Sodexo", NoCoordinates)}

\* the lists GET /restaurants answers with: identifiers are unique within a list
RestaurantLists ==
    {l \in UNION {[1..n -> RestaurantPool] : n \in 0..MaxRestaurants} :
        \A i, j \in DOMAIN l : l[i].id = l[j].id => i = j}

\* the strings of the pool in the order Array.prototype.sort() gives them
SortOrder == <<"Compass", "Espoo", "Helsinki", "Sodexo">>

\* the distinct values in descending order
SortedUniqueDescending(values) ==
    LET n == Len(SortOrder)
    IN  SelectSeq([i \in 1..n |-> SortOrder[n + 1 - i]], LAMBDA x : x \in values)

\* [...new Set(values)].sort()
SortedUnique(values) == SelectSeq(SortOrder, LAMBDA x : x \in values)

Cities(list) == SortedUnique({list[i].city : i \in DOMAIN list})
Companies(list) == SortedUnique({list[i].company : i \in DOMAIN list})

\* el.restaurantList: a line of text, or the cards (the _id of each, in order)
View(kind, shown) == [kind |-> kind, shown |-> shown]

\* what renderRestaurants leaves in the list: the cards, or the "no results" line
Cards(list) ==
    IF list = <<>> THEN View("noResults", <<>>)
    ELSE View("cards", [i \in DOMAIN list |-> list[i].id])

----------------------------------------------------------------------------
(* filterAndRender (part_000:609-629): the three predicates.               *)

\* the restaurants in the order of their identifiers
BrowseOrder ==
    <<Restaurant("r1", "A", "Helsinki", "Sodexo", "far"),
      Restaurant("r2", "B", "Espoo", "Sodexo", NoCoordinates),
      Restaurant("r3", "Ab", "Helsinki", "Compass", "near")>>

\* the restaurants of the directories the filters and renders work on
BrowsePool == {BrowseOrder[i] : i \in DOMAIN BrowseOrder}

\* the directories: identifiers are unique within a list
Directories ==
    {l \in UNION {[1..n -> BrowsePool] : n \in 0..MaxDirectory} :
        \A i, j \in DOMAIN l : l[i].id = l[j].id => i = j}

\* filtered.filter(r => r.city === el.cityFilter.value)
FilterByCity(list, city) == SelectSeq(list, LAMBDA r : r.city = city)

\* a provider filter that stops at the first restaurant it keeps
FilterByProviderFirstOnly(list, provider) ==
    LET kept == SelectSeq(list, LAMBDA r : r.company = provider)
    IN  IF kept = <<>> THEN kept ELSE <<kept[1]>>

\* filtered.filter(r => r.company === el.providerFilter.value)
FilterByProvider(list, provider) == SelectSeq(list, LAMBDA r : r.company = provider)

\* a name filter that compares the name as it is written
FilterByNameCaseSensitive(list, term) == SelectSeq(list, LAMBDA r : Includes(r.name, term))

\* filtered.filter(r => r.name?.toLowerCase().includes(term))
FilterByName(list, term) == SelectSeq(list, LAMBDA r : Includes(ToLowerCase(r.name), term))

\* const term = el.searchInput.value.trim().toLowerCase()
Term(search) == ToLowerCase(Trim(search))

\* each step of filterAndRender: the predicate is applied when its control
\* has a truthy value (for the search box: a truthy trimmed value)
CityStep(list, city) == IF Truthy(city) THEN FilterByCity(list, city) ELSE list
ProviderStep(list, provider) ==
    IF Truthy(provider) THEN FilterByProvider(list, provider) ELSE list
SearchStep(list, search) ==
    IF Truthy(Trim(search)) THEN FilterByName(list, Term(search)) ELSE list

\* let filtered = restaurants; then city, provider, search in this order
Filtered(list, city, provider, search) ==
    SearchStep(ProviderStep(CityStep(list, city), provider), search)

----------------------------------------------------------------------------
(* renderRestaurants and renderMap (part_000:376-602).                     *)

\* the position getCurrentPosition reports
Here == "here"

\* haversine(loc.lat, loc.lng, lat, lng) in km, for the places of the pool
Haversine(loc, coordinates) == IF coordinates = "far" THEN 12 ELSE 1

\* (a, b) => a is the favourite ? -1 : b is the favourite ? 1 : 0
FavouriteCompare(fav, a, b) == IF a.id = fav THEN -1 ELSE IF b.id = fav THEN 1 ELSE 0

\* the comparator of the distance sort: 0 when either has no coordinates
DistanceCompare(loc, a, b) ==
    IF a.coordinates = NoCoordinates \/ b.coordinates = NoCoordinates THEN 0
    ELSE Haversine(loc, a.coordinates) - Haversine(loc, b.coordinates)

RECURSIVE Insert(_, _, _)
\* one insertion of Array.prototype.sort: x moves left past every element
\* the comparator puts after it; cmp[a, b] is the comparator's result
Insert(sorted, x, cmp) ==
    IF sorted = <<>> THEN <<x>>
    ELSE LET last == sorted[Len(sorted)]
         IN  IF cmp[last, x] > 0
             THEN Insert(SubSeq(sorted, 1, Len(sorted) - 1), x, cmp) \o <<last>>
             ELSE sorted \o <<x>>

RECURSIVE Sort(_, _)
\* Array.prototype.sort(cmp) on a short array: a stable insertion sort
Sort(list, cmp) ==
    IF list = <<>> THEN list
    ELSE Insert(Sort(SubSeq(list, 1, Len(list) - 1), cmp), list[Len(list)], cmp)

\* the order of the cards when the distance sort is tried first
SortedNearestFirst(list, user, loc) ==
    IF loc # Null
    THEN Sort(list, [a, b \in BrowsePool |-> DistanceCompare(loc, a, b)])
    ELSE IF Truthy(user.favouriteRestaurant)
    THEN Sort(list, [a, b \in BrowsePool |->
                        FavouriteCompare(user.favouriteRestaurant, a, b)])
    ELSE list

\* let sorted = [...list]: favourite first, else by distance when the
\* location is known, else the order of the list (part_000:525-538)
Sorted(list, user, loc) ==
    IF Truthy(user.favouriteRestaurant)
    THEN Sort(list, [a, b \in BrowsePool |->
                        FavouriteCompare(user.favouriteRestaurant, a, b)])
    ELSE IF loc # Null
    THEN Sort(list, [a, b \in BrowsePool |-> DistanceCompare(loc, a, b)])
    ELSE list

\* a marker on the map: the user's, or a restaurant's (yellow for the favourite)
Marker(kind, id, fav) == [kind |-> kind, id |-> id, fav |-> fav]

\* the markers renderMap pushes after its await: the user's when the location
\* is known, then one for each restaurant of the directory with coordinates
NewMarkers(list, user, loc) ==
    (IF loc # Null THEN <<Marker("user", Here, FALSE)>> ELSE <<>>)
        \o [i \in DOMAIN SelectSeq(list, LAMBDA r : r.coordinates # NoCoordinates) |->
               LET r == SelectSeq(list, LAMBDA x : x.coordinates # NoCoordinates)[i]
               IN  Marker("restaurant", r.id, user.favouriteRestaurant = r.id)]

----------------------------------------------------------------------------
(* The page.                                                               *)

Callers ==
    {"restaurants", "login", "direct", "favourite", "profile", "register", "daily",
     "weekly"}

\* what the caller keeps over its await: the restaurant id (the favourite
\* of the profile form) and the e-mail address of the profile form
Arg(id, email) == [id |-> id, email |-> email]

NoArg == Arg(Undef, Undef)

IdleCall ==
    [st |-> "idle", opts |-> NoOptions, headers |-> NoHeaders,
     res |-> Rejection(Undef), err |-> Undef, alerts |-> <<>>, arg |-> NoArg]

\* the call as apiFetch leaves it at await fetch(url, {...options, headers})
Sent(options) ==
    [IdleCall EXCEPT !.st = "sent", !.opts = options,
                     !.headers = BuildHeaders(token, store.token, options)]

\* calls whose promise the caller has not taken yet
InFlight == Cardinality({c \in Callers : calls[c].st # "idle"})

\* lastOp: the operation (of those the properties below speak about), the
\* caller whose request it sent, the arguments of saveAuth (for logout: the
\* session it ended), whether an exception escaped, the list a refresh received
Op(op, sent, user, tkn, threw, list) ==
    [op |-> op, sent |-> sent, user |-> user, tkn |-> tkn, threw |-> threw, list |-> list,
     loc |-> Undef, id |-> Undef]

\* lastOp of a render: the list it was given and the location it got (Undef
\* while it is suspended)
RenderOp(op, list, loc) == [Op(op, "-", JUndef, Undef, FALSE, list) EXCEPT !.loc = loc]

\* lastOp of an operation on the restaurant id (for the registration: the
\* user name): the request it sent, a user object, whether an exception
\* escaped (for the favourite and the profile: whether the update was written)
IdOp(op, sent, id, user, threw) ==
    [Op(op, sent, user, Undef, threw, <<>>) EXCEPT !.id = id]

NoOp == Op("-", "-", JUndef, Undef, FALSE, <<>>)

\* the menu overlay: hidden or shown, its title and its content (the fixed
\* placeholder, or the names of the courses of each section)
Overlay(shown, title, content) == [shown |-> shown, title |-> title, content |-> content]

\* the overlay as the document has it: display none, no title, no content
NoOverlay == Overlay(FALSE, "", <<>>)

\* `<p>${t("noMenu")}</p>`
NoMenuPlaceholder == <<"noMenu">>

\* no menu request is under way. sent: the requests whose handler has not
\* resumed yet, oldest first; overtaken: those of them sent before a request
\* whose response has been shown; stale: the response shown last was that
\* of an overtaken request
NoMenuLog == [sent |-> <<>>, overtaken |-> {}, stale |-> FALSE]

\* localStorage as an earlier visit (or the user) may have left it
StoredTokens == {Null, "t1"}
StoredUsers == {TextAbsent, TextRaw("x"), JSONstringify(JObj("u", Undef))}

InitPage ==
    /\ page = "init"
    /\ token = Null
    /\ currentUser = JNull
    /\ store \in [token : StoredTokens, currentUser : StoredUsers]
    /\ restaurants = <<>>
    /\ listView = View("blank", <<>>)
    /\ cityOptions = <<>>
    /\ providerOptions = <<>>
    /\ listRenders = <<>>
    /\ calls = [c \in Callers |-> IdleCall]
    /\ userLocation = Null
    /\ map = Null
    /\ markers = <<>>
    /\ mapRenders = 0
    /\ mapRetries = 0
    /\ cityFilter = ""
    /\ providerFilter = ""
    /\ searchInput = ""
    /\ menuDisplay = NoOverlay
    /\ menuLog = NoMenuLog
    /\ loginT = Null
    /\ listBefore = <<>>
    /\ lastOp = Op("init", "-", JUndef, Undef, FALSE, <<>>)

\* the page of a browser that has not loaded the Maps script and refuses
\* geolocation requests
Init ==
    /\ InitPage
    /\ googleMaps = FALSE
    /\ geolocation = "denied"

\* DOMContentLoaded (part_000:1027-1040): loadAuth(), then fetchRestaurants()
\* up to its await; an exception out of loadAuth would end the handler there
DOMContentLoaded ==
    /\ page = "init"
    /\ calls["restaurants"].st = "idle"
    /\ LET la == LoadAuth(store, currentUser)
       IN  /\ page' = "ready"
           /\ token' = la.token
           /\ currentUser' = la.currentUser
           /\ IF la.threw
              THEN UNCHANGED <<listView, calls>>
              ELSE /\ listView' = View("loading", <<>>)
                   /\ calls' = [calls EXCEPT !["restaurants"] =
                          [IdleCall EXCEPT !.st = "sent",
                              !.headers = BuildHeaders(la.token, store.token, NoOptions)]]
           /\ lastOp' = Op("loadAuth", IF la.threw THEN "-" ELSE "restaurants",
                           JUndef, Undef, la.threw, <<>>)
    /\ listBefore' = restaurants
    /\ UNCHANGED <<store, restaurants, cityOptions, providerOptions, listRenders, loginT,
                   envVars, browseVars, menuDisplay, menuLog>>

\* the page is loaded anew (window.location.reload(), or the user): the
\* script's state is the module's initial state, the store stays
Reload ==
    /\ page \in {"ready", "reloading"}
    /\ page' = "init"
    /\ token' = Null
    /\ currentUser' = JNull
    /\ restaurants' = <<>>
    /\ listView' = View("blank", <<>>)
    /\ cityOptions' = <<>>
    /\ providerOptions' = <<>>
    /\ listRenders' = <<>>
    /\ calls' = [c \in Callers |-> IdleCall]
    /\ userLocation' = Null
    /\ map' = Null
    /\ markers' = <<>>
    /\ mapRenders' = 0
    /\ mapRetries' = 0
    /\ cityFilter' = ""
    /\ providerFilter' = ""
    /\ searchInput' = ""
    /\ menuDisplay' = NoOverlay
    /\ menuLog' = NoMenuLog
    /\ listBefore' = <<>>
    /\ lastOp' = Op("init", "-", JUndef, Undef, FALSE, <<>>)
    /\ UNCHANGED <<store, loginT, envVars>>

\* what the server (or the network) may answer to the request of caller c
ErrorStatuses == {404, 500}

ErrorBodies ==
    {BodyUnparsable, BodyNull, BodyObject(Undef)} \cup {BodyObject(m) : m \in ServerMessages}

\* a day of the weekly menu: the JSON null, or an object with a courses
\* array or without one
Day(hasCourses, courses) == [null |-> FALSE, hasCourses |-> hasCourses, courses |-> courses]
NullDay == [null |-> TRUE, hasCourses |-> FALSE, courses |-> <<>>]

\* answers to the daily menu request: no courses field, no courses, a
\* course, a course and a null in its place
DailyMenus ==
    {NoMenu,
     Menu(TRUE, <<>>, FALSE, <<>>),
     Menu(TRUE, <<Course("Soup")>>, FALSE, <<>>),
     Menu(TRUE, <<Course("Soup"), NullCourse>>, FALSE, <<>>)}

\* answers to the weekly menu request: no days field, no days, the week in
\* one day, a day for each weekday, a null day, a null course
WeeklyMenus ==
    {NoMenu,
     Menu(FALSE, <<>>, TRUE, <<>>),
     Menu(FALSE, <<>>, TRUE, <<Day(TRUE, <<Course("Soup"), Course("Fish")>>)>>),
     Menu(FALSE, <<>>, TRUE, <<Day(TRUE, <<Course("Soup")>>), Day(FALSE, <<>>)>>),
     Menu(FALSE, <<>>, TRUE, <<Day(TRUE, <<Course("Soup")>>), NullDay>>),
     Menu(FALSE, <<>>, TRUE, <<Day(TRUE, <<NullCourse>>)>>)}

OkBodies(c) ==
    CASE c = "restaurants" -> {BodyArray(l) : l \in RestaurantLists} \cup {BodyUnparsable}
      [] c = "login" -> {BodyLogin(t, u) : t \in Tokens, u \in Users}
                            \cup {BodyObject("ok"), BodyUnparsable}
      [] c = "daily" -> {BodyMenu(m) : m \in DailyMenus} \cup {BodyNull, BodyUnparsable}
      [] c = "weekly" -> {BodyMenu(m) : m \in WeeklyMenus} \cup {BodyNull, BodyUnparsable}
      [] OTHER -> {BodyObject(Undef), BodyUnparsable}

\* the failures of the requests of the page's handlers: no connection, or
\* an error answer with a message
HandlerFailures == {Rejection("Failed to fetch"), Response(404, BodyObject("Not found"))}

\* every failure for the direct caller, the two above for the handlers
Outcomes(c) ==
    IF c # "direct"
    THEN HandlerFailures \cup {Response(200, b) : b \in OkBodies(c)}
    ELSE {Rejection(m) : m \in TransportMessages}
            \cup {Response(s, b) : s \in ErrorStatuses, b \in ErrorBodies}
            \cup {Response(200, b) : b \in OkBodies(c)}

\* the exported apiFetch (part_001:570) called by other code with its own options
ApiFetchDirect ==
    /\ page = "ready"
    /\ calls["direct"].st = "idle"
    /\ InFlight < MaxInFlight
    /\ \E options \in Options :
          calls' = [calls EXCEPT !["direct"] = Sent(options)]
    /\ lastOp' = Op("apiFetch", "direct", JUndef, Undef, FALSE, <<>>)
    /\ UNCHANGED <<page, token, currentUser, store, restaurants, listView, cityOptions,
                   providerOptions, listRenders, loginT, listBefore, envVars,
                   browseVars, menuDisplay, menuLog>>

\* the names of the courses of a long menu
CourseNames ==
    <<"c01", "c02", "c03", "c04", "c05", "c06", "c07", "c08", "c09", "c10", "c11", "c12">>

\* the weekly menu some restaurants answer with: one day that carries the
\* n courses of the whole week
WeekInOneDay(n) ==
    Menu(FALSE, <<>>, TRUE, <<Day(TRUE, [i \in 1..n |-> Course(CourseNames[i])])>>)

\* the answers to the weekly menu request that are a week in one day
WeekOutcomes == {Response(200, BodyMenu(WeekInOneDay(n))) : n \in 0..MaxCourses}

\* fetch settles for the call of c, with a week in one day or with any
\* outcome of the caller, and apiFetch runs to its return or its throw
SettlesAs(c, week) ==
    /\ page = "ready"
    /\ calls[c].st = "sent"
    /\ \E o \in (IF week THEN WeekOutcomes ELSE Outcomes(c)) :
          LET r == Settle(o)
          IN  calls' = [calls EXCEPT ![c] =
                  [IdleCall EXCEPT !.st = r.st, !.res = o, !.err = r.err,
                                   !.alerts = r.alerts, !.arg = calls[c].arg]]
    /\ lastOp' = NoOp
    /\ UNCHANGED <<page, token, currentUser, store, restaurants, listView, cityOptions,
                   providerOptions, listRenders, loginT, listBefore, envVars,
                   browseVars, menuDisplay, menuLog>>

FetchSettles == \E c \in Callers : SettlesAs(c, FALSE)

\* the weekly menu request is answered with a week in one day
WeekSettles == SettlesAs("weekly", TRUE)

\* the other code takes the result of its call
DirectReturns ==
    /\ page = "ready"
    /\ calls["direct"].st \in {"resolved", "rejected"}
    /\ calls' = [calls EXCEPT !["direct"] = IdleCall]
    /\ lastOp' = NoOp
    /\ UNCHANGED <<page, token, currentUser, store, restaurants, listView, cityOptions,
                   providerOptions, listRenders, loginT, listBefore, envVars,
                   browseVars, menuDisplay, menuLog>>

\* only the head of the response is taken over
AssignedFirstOnly(old, list) == IF Len(list) > 1 THEN SubSeq(list, 1, 1) ELSE list

\* restaurants = await apiFetch(...): the variable then holds the response
Assigned(old, list) == list

\* populateFilters(): both option lists are rebuilt from restaurants
PopulateFilters(list) == [cities |-> Cities(list), companies |-> Companies(list)]

\* what a browser may do with a geolocation request: call the success
\* callback, call the error callback (permission denied, or the timeout of
\* 10 s), or have no navigator.geolocation at all
GeolocationAnswers == {"granted", "denied", "timeout", "unsupported"}

\* a map object is constructed on every call
MapInstanceAlwaysNew(old) == IF old = Null THEN "map" ELSE old \o "+"

\* if (!map) map = new google.maps.Map(...) (part_000:390-417): the object
\* the variable map holds afterwards
MapInstance(old) == IF old = Null THEN "map" ELSE old

\* a renderMap that gives up without the Maps script
MapAtAwaitNoRetry ==
    IF googleMaps
    THEN [map |-> MapInstance(map), markers |-> IF map = Null THEN markers ELSE <<>>,
          pending |-> 1, retries |-> 0]
    ELSE [map |-> map, markers |-> markers, pending |-> 0, retries |-> 0]

\* renderMap() up to its await (part_000:376-432): without the Maps script
\* nothing but a retry scheduled with setTimeout; else the map is created,
\* or it exists and its markers are cleared; pending counts the suspended
\* call, retries the scheduled one
MapAtAwait ==
    IF googleMaps
    THEN [map |-> MapInstance(map), markers |-> IF map = Null THEN markers ELSE <<>>,
          pending |-> 1, retries |-> 0]
    ELSE [map |-> map, markers |-> markers, pending |-> 0, retries |-> 1]

\* what a getUserLocation() that had to ask the browser resolves with: the
\* position, or null after the error callback (permission denied, timeout)
Located == IF geolocation = "granted" THEN Here ELSE Null

\* userLocation after the callback of getCurrentPosition ran
Cached == IF geolocation = "granted" THEN Here ELSE userLocation

\* a getUserLocation() that asks the browser every time
ImmediateNever == FALSE

\* getUserLocation() resolves before it returns: without navigator.geolocation
\* (part_000:354), or with the cached location (part_000:357)
Immediate == geolocation = "unsupported" \/ userLocation # Null

\* what it resolves with then: the first resolve wins
ImmediateLocation == IF geolocation = "unsupported" THEN Null ELSE userLocation

\* renderRestaurants(list) and renderMap() called one after the other: when
\* getUserLocation() resolves at once both awaits resume within the task and
\* the renders are complete; otherwise both stay suspended until the
\* browser answers
StartRenders(list, directory, user) ==
    LET m == MapAtAwait
    IN  IF Immediate
        THEN [listView |-> Cards(Sorted(list, user, ImmediateLocation)),
              listRenders |-> listRenders,
              map |-> m.map,
              markers |-> IF googleMaps
                          THEN m.markers \o NewMarkers(directory, user, ImmediateLocation)
                          ELSE markers,
              mapRenders |-> mapRenders,
              mapRetries |-> mapRetries + m.retries]
        ELSE [listView |-> listView,
              listRenders |-> Append(listRenders, list),
              map |-> m.map,
              markers |-> m.markers,
              mapRenders |-> mapRenders + m.pending,
              mapRetries |-> mapRetries + m.retries]

\* fetchRestaurants() after its await (part_000:779-789): the list is assigned
\* and the renders start, or the catch block shows the error line
FetchRestaurantsContinues ==
    /\ page = "ready"
    /\ calls["restaurants"].st \in {"resolved", "rejected"}
    /\ IF calls["restaurants"].st = "resolved"
       THEN LET list == calls["restaurants"].res.body.list
                new == Assigned(restaurants, list)
                f == PopulateFilters(new)
                r == StartRenders(new, new, currentUser)
            IN  /\ restaurants' = new
                /\ cityOptions' = f.cities
                /\ providerOptions' = f.companies
                /\ listRenders' = r.listRenders
                /\ listView' = r.listView
                /\ map' = r.map
                /\ markers' = r.markers
                /\ mapRenders' = r.mapRenders
                /\ mapRetries' = r.mapRetries
                /\ lastOp' = Op("fetchRestaurantsOk", "-", JUndef, Undef, FALSE, list)
       ELSE /\ listView' = View("error", <<>>)
            /\ lastOp' = Op("fetchRestaurantsFailed", "-", JUndef, Undef, FALSE, <<>>)
            /\ UNCHANGED <<restaurants, cityOptions, providerOptions, listRenders, map,
                           markers, mapRenders, mapRetries>>
    /\ calls' = [calls EXCEPT !["restaurants"] = IdleCall]
    /\ UNCHANGED <<page, token, currentUser, store, loginT, listBefore, envVars,
                   userLocation, cityFilter, providerFilter, searchInput, menuDisplay, menuLog>>

\* renderRestaurants(list) after await getUserLocation() (part_000:522-576)
RenderRestaurantsResumes ==
    /\ page = "ready"
    /\ \E i \in DOMAIN listRenders :
          /\ listView' = Cards(Sorted(listRenders[i], currentUser, Located))
          /\ listRenders' = SubSeq(listRenders, 1, i - 1)
                                \o SubSeq(listRenders, i + 1, Len(listRenders))
          /\ lastOp' = RenderOp("renderRestaurants", listRenders[i], Located)
    /\ userLocation' = Cached
    /\ UNCHANGED <<page, token, currentUser, store, restaurants, cityOptions,
                   providerOptions, calls, loginT, listBefore, envVars, map, markers,
                   mapRenders, mapRetries, cityFilter, providerFilter, searchInput, menuDisplay, menuLog>>

\* renderMap() after await getUserLocation() (part_000:432-510): the markers
\* of the directory are pushed after those the map has
RenderMapResumes ==
    /\ page = "ready"
    /\ mapRenders > 0
    /\ markers' = markers \o NewMarkers(restaurants, currentUser, Located)
    /\ mapRenders' = mapRenders - 1
    /\ userLocation' = Cached
    /\ lastOp' = RenderOp("renderMap", restaurants, Located)
    /\ UNCHANGED <<page, token, currentUser, store, restaurants, listView, cityOptions,
                   providerOptions, listRenders, calls, loginT, listBefore, envVars, map,
                   mapRetries, cityFilter, providerFilter, searchInput, menuDisplay, menuLog>>

\* the Maps script has finished loading: google.maps is there from now on
GoogleMapsLoads ==
    /\ ~googleMaps
    /\ googleMaps' = TRUE
    /\ lastOp' = NoOp
    /\ UNCHANGED <<page, token, currentUser, store, restaurants, listView, cityOptions,
                   providerOptions, listRenders, calls, loginT, listBefore, geolocation,
                   browseVars, menuDisplay, menuLog>>

\* the user changes the permission of the site, or the position is or is
\* no longer found within the timeout: later requests are answered otherwise
PermissionChanges ==
    /\ geolocation # "unsupported"
    /\ geolocation' \in (GeolocationAnswers \ {"unsupported", geolocation})
    /\ lastOp' = NoOp
    /\ UNCHANGED <<page, token, currentUser, store, restaurants, listView, cityOptions,
                   providerOptions, listRenders, calls, loginT, listBefore, googleMaps,
                   browseVars, menuDisplay, menuLog>>

\* the timer of part_000:380 fires and calls renderMap(): without the Maps
\* script the call is deferred again; with it the call runs as any other,
\* to its end when getUserLocation() resolves at once, else to its await
RenderMapRetry ==
    /\ page = "ready"
    /\ mapRetries > 0
    /\ LET m == MapAtAwait
       IN  /\ map' = m.map
           /\ mapRetries' = mapRetries - 1 + m.retries
           /\ IF ~googleMaps
              THEN /\ lastOp' = RenderOp("renderMapDeferred", restaurants, Undef)
                   /\ UNCHANGED <<markers, mapRenders>>
              ELSE IF Immediate
              THEN /\ markers' = m.markers
                                    \o NewMarkers(restaurants, currentUser, ImmediateLocation)
                   /\ lastOp' = RenderOp("renderMapAtOnce", restaurants, ImmediateLocation)
                   /\ UNCHANGED mapRenders
              ELSE /\ mapRenders < MaxMapRenders
                   /\ markers' = m.markers
                   /\ mapRenders' = mapRenders + m.pending
                   /\ lastOp' = RenderOp("renderMapAwaits", restaurants, Undef)
    /\ UNCHANGED <<page, token, currentUser, store, restaurants, listView, cityOptions,
                   providerOptions, listRenders, calls, loginT, listBefore, envVars,
                   userLocation, cityFilter, providerFilter, searchInput, menuDisplay, menuLog>>

\* what the user may have typed into the login form
LoginNames == {"", " ", "u"}
LoginPasswords == {"", "pw"}

\* click on doLogin (part_000:924-928): empty fields end in an alert,
\* otherwise POST /auth/login is sent
DoLoginClick ==
    /\ page = "ready"
    /\ calls["login"].st = "idle"
    /\ \E name \in LoginNames, p \in LoginPasswords :
          LET u == Trim(name)
          IN  IF u = "" \/ p = ""
              THEN /\ lastOp' = NoOp
                   /\ UNCHANGED calls
              ELSE /\ InFlight < MaxInFlight
                   /\ calls' = [calls EXCEPT !["login"] =
                          Sent([headers |-> NoHeaders, body |-> "json"])]
                   /\ lastOp' = Op("apiFetch", "login", JUndef, Undef, FALSE, <<>>)
    /\ UNCHANGED <<page, token, currentUser, store, restaurants, listView, cityOptions,
                   providerOptions, listRenders, loginT, listBefore, envVars,
                   browseVars, menuDisplay, menuLog>>

\* doLogin after its await (part_000:929-933): saveAuth(data.data, data.token)
\* and window.location.reload(), or the empty catch block
DoLoginContinues ==
    /\ page = "ready"
    /\ calls["login"].st \in {"resolved", "rejected"}
    /\ IF calls["login"].st = "resolved"
       THEN LET data == calls["login"].res.body
                s == SaveAuth(data.data, data.token)
            IN  /\ token' = s.token
                /\ currentUser' = s.currentUser
                /\ store' = s.store
                /\ page' = "reloading"
                /\ loginT' = IF Truthy(data.token) /\ data.data.ty = "obj"
                             THEN data.token ELSE Null
                /\ lastOp' = Op("saveAuth", "-", data.data, data.token, FALSE, <<>>)
       ELSE /\ lastOp' = NoOp
            /\ UNCHANGED <<page, token, currentUser, store, loginT>>
    /\ calls' = [calls EXCEPT !["login"] = IdleCall]
    /\ UNCHANGED <<restaurants, listView, cityOptions, providerOptions, listRenders,
                   listBefore, envVars, browseVars, menuDisplay, menuLog>>

\* click on logoutBtn (part_000:1006-1010): logout(), window.location.reload()
LogoutClick ==
    /\ page = "ready"
    /\ token' = Logout.token
    /\ currentUser' = Logout.currentUser
    /\ store' = Logout.store
    /\ page' = "reloading"
    /\ loginT' = Null
    /\ lastOp' = Op("logout", "-", currentUser, token, FALSE, <<>>)
    /\ UNCHANGED <<restaurants, listView, cityOptions, providerOptions, listRenders,
                   calls, listBefore, envVars, browseVars, menuDisplay, menuLog>>

\* another page of the same origin runs logout() or saveAuth() on the store
StorageChangedElsewhere ==
    /\ store' \in {Logout.store, SaveAuth(JObj("v", "r1"), "t2").store}
    /\ store' # store
    /\ lastOp' = NoOp
    /\ UNCHANGED <<page, token, currentUser, restaurants, listView, cityOptions,
                   providerOptions, listRenders, calls, loginT, listBefore, envVars,
                   browseVars, menuDisplay, menuLog>>

----------------------------------------------------------------------------
(* Favourite and profile (part_000:638-659, 936-949).                      *)

\* the renders filterAndRender may still start fit into the bounds: those
\* suspended, and one for each favourite or profile request on its way
RenderCapacity ==
    LET waiting == Cardinality({c \in {"favourite", "profile"} : calls[c].st # "idle"})
    IN  /\ Len(listRenders) + waiting < MaxRenders
        /\ mapRenders + waiting < MaxMapRenders
        /\ googleMaps \/ mapRetries + waiting < MaxMapRetries

\* filterAndRender() (part_000:609-629) for the values of the three controls
\* and the user object given: the list render gets the filtered list, the
\* map render works on the directory
\* a filterAndRender() that only calls renderRestaurants(filtered)
FilterAndRenderListOnly(city, provider, search, user) ==
    [StartRenders(Filtered(restaurants, city, provider, search), restaurants, user)
        EXCEPT !.map = map, !.markers = markers, !.mapRenders = mapRenders,
               !.mapRetries = mapRetries]

FilterAndRenderAt(city, provider, search, user) ==
    StartRenders(Filtered(restaurants, city, provider, search), restaurants, user)

FilterAndRender(user) == FilterAndRenderAt(cityFilter, providerFilter, searchInput, user)

\* the ids the card buttons and the map popups pass to the window functions
RestaurantIds == {r.id : r \in RestaurantPool}

\* the values of the favourite select of the profile form: none, or a restaurant
FavouriteValues == {""} \cup {r.id : r \in RestaurantPool}

\* what the user may have typed into the e-mail field of the profile form
EmailTexts == {"", " e@x "}

\* the update written before the server has answered
AppliedAlways(call, user, st, updates) ==
    LET new == [user EXCEPT !.favouriteRestaurant = updates.id,
                            !.email = IF updates.email = Undef THEN @ ELSE updates.email]
    IN  [currentUser |-> new,
         store |-> [st EXCEPT !.currentUser = JSONstringify(new)],
         done |-> TRUE]

\* what follows await apiFetch(PUT /users) in both handlers: when the call
\* resolved the properties are assigned to currentUser (a TypeError, caught,
\* when it is null) and its text is stored; when it was rejected the catch
\* block runs and nothing is written
Applied(call, user, st, updates) ==
    IF call.st = "resolved" /\ user.ty = "obj"
    THEN LET new == [user EXCEPT !.favouriteRestaurant = updates.id,
                                 !.email = IF updates.email = Undef THEN @
                                           ELSE updates.email]
         IN  [currentUser |-> new,
              store |-> [st EXCEPT !.currentUser = JSONstringify(new)],
              done |-> TRUE]
    ELSE [currentUser |-> user, store |-> st, done |-> FALSE]

\* window.setFavoriteRestaurant(id) up to its await (part_000:638-647)
SetFavoriteClick ==
    /\ page = "ready"
    /\ \E id \in RestaurantIds :
          IF currentUser.ty # "obj" \/ ~Truthy(token)
          THEN /\ lastOp' = NoOp
               /\ UNCHANGED calls
          ELSE /\ calls["favourite"].st = "idle"
               /\ InFlight < MaxInFlight
               /\ RenderCapacity
               /\ calls' = [calls EXCEPT !["favourite"] =
                      [Sent([headers |-> NoHeaders, body |-> "json"])
                          EXCEPT !.arg = Arg(id, Undef)]]
               /\ lastOp' = IdOp("apiFetch", "favourite", id, JUndef, FALSE)
    /\ UNCHANGED <<page, token, currentUser, store, restaurants, listView, cityOptions,
                   providerOptions, listRenders, loginT, listBefore, envVars,
                   browseVars, menuDisplay, menuLog>>

\* the tail both handlers share: the user object and its stored text, and,
\* when they were written, filterAndRender()
AccountContinues(c, op) ==
    /\ page = "ready"
    /\ calls[c].st \in {"resolved", "rejected"}
    /\ LET a == Applied(calls[c], currentUser, store, calls[c].arg)
           r == FilterAndRender(a.currentUser)
       IN  /\ currentUser' = a.currentUser
           /\ store' = a.store
           /\ IF a.done
              THEN /\ listView' = r.listView
                   /\ listRenders' = r.listRenders
                   /\ map' = r.map
                   /\ markers' = r.markers
                   /\ mapRenders' = r.mapRenders
                   /\ mapRetries' = r.mapRetries
              ELSE UNCHANGED <<listView, listRenders, map, markers, mapRenders, mapRetries>>
           /\ lastOp' = IdOp(op, "-", calls[c].arg.id, JUndef, a.done)
    /\ calls' = [calls EXCEPT ![c] = IdleCall]
    /\ UNCHANGED <<page, token, restaurants, cityOptions, providerOptions, loginT,
                   listBefore, envVars, userLocation, cityFilter, providerFilter,
                   searchInput, menuDisplay, menuLog>>

\* setFavoriteRestaurant after its await (part_000:649-658)
SetFavoriteContinues == AccountContinues("favourite", "setFavorite")

\* click on updateProfile up to its await (part_000:936-943)
UpdateProfileClick ==
    /\ page = "ready"
    /\ \E text \in EmailTexts, value \in FavouriteValues :
          IF ~Truthy(token)
          THEN /\ lastOp' = NoOp
               /\ UNCHANGED calls
          ELSE /\ calls["profile"].st = "idle"
               /\ InFlight < MaxInFlight
               /\ RenderCapacity
               /\ value \in {""} \cup {restaurants[i].id : i \in DOMAIN restaurants}
               /\ calls' = [calls EXCEPT !["profile"] =
                      [Sent([headers |-> NoHeaders, body |-> "json"])
                          EXCEPT !.arg = Arg(IF Truthy(value) THEN value ELSE Null,
                                             Trim(text))]]
               /\ lastOp' = IdOp("apiFetch", "profile", value, JUndef, FALSE)
    /\ UNCHANGED <<page, token, currentUser, store, restaurants, listView, cityOptions,
                   providerOptions, listRenders, loginT, listBefore, envVars,
                   browseVars, menuDisplay, menuLog>>

\* click on updateProfile after its await (part_000:944-948)
UpdateProfileContinues == AccountContinues("profile", "updateProfile")

----------------------------------------------------------------------------
(* Menu viewer (part_000:668-766).                                         *)

\* restaurants.find(x => x._id === id): the name of the restaurant, Undef
\* when the directory has none with this id
NameOf(list, id) ==
    IF \E i \in DOMAIN list : list[i].id = id
    THEN list[CHOOSE i \in DOMAIN list : list[i].id = id].name
    ELSE Undef

\* content.map(c => `...${c.name}...`): reading the name of null throws
HasNullCourse(courses) == \E i \in DOMAIN courses : courses[i].null

\* the markup of a list of courses: their names
Names(courses) == [i \in DOMAIN courses |-> courses[i].name]

\* displayMenu(title, content) for a string content: never throws
DisplayText(title, content) ==
    [overlay |-> Overlay(TRUE, title, content), threw |-> FALSE]

\* displayMenu(title, courses) for an array: the title is written first;
\* the TypeError of a null course leaves the rest undone and rejects the
\* promise of displayMenu, which nobody awaits
DisplayCourses(overlay, title, courses) ==
    IF HasNullCourse(courses)
    THEN [overlay |-> [overlay EXCEPT !.title = title], threw |-> TRUE]
    ELSE [overlay |-> Overlay(TRUE, title,
                              IF courses = <<>> THEN NoMenuPlaceholder ELSE Names(courses)),
          threw |-> FALSE]

\* showDailyMenu after its await (part_000:693-697): a rejected call and
\* the TypeError of reading courses of null end in the catch block
DailyShown(overlay, name, call) ==
    IF call.st = "rejected" \/ call.res.body.kind = "null"
    THEN DisplayText(name, NoMenuPlaceholder)
    ELSE DisplayCourses(overlay, name \o " - menuDay", call.res.body.menu.courses)

Weekdays ==
    <<"Maanantai", "Tiistai", "Keskiviikko", "Torstai", "Perjantai", "Lauantai",
      "Sunnuntai">>

\* Math.floor(n / 5)
ChunkFloor(n) == n \div 5

\* Math.ceil(n / 5)
Chunk(n) == (n + 4) \div 5

\* all.slice(from, to)
Slice(all, from, to) ==
    SubSeq(all, from + 1, IF to > Len(all) THEN Len(all) ELSE to)

RECURSIVE Buckets(_, _)
\* the single-day shape: five weekday sections of chunk courses each
Buckets(all, i) ==
    IF i = 5 THEN <<>>
    ELSE LET slice == Slice(all, i * Chunk(Len(all)), (i + 1) * Chunk(Len(all)))
         IN  <<Weekdays[i + 1]>>
                \o (IF slice = <<>> THEN NoMenuPlaceholder ELSE Names(slice))
                \o Buckets(all, i + 1)

RECURSIVE Sections(_, _)
\* the per-day shape: a heading (the weekday, the days carry no date) and
\* the courses or the placeholder for each day
Sections(days, i) ==
    IF i > Len(days) THEN <<>>
    ELSE <<Weekdays[((i - 1) % 7) + 1]>>
            \o (IF days[i].hasCourses /\ days[i].courses # <<>>
                THEN Names(days[i].courses) ELSE NoMenuPlaceholder)
            \o Sections(days, i + 1)

\* the try block of showWeeklyMenu throws: week or week.days is not there,
\* a day is null, or a course whose name is read is null
WeeklyThrows(body) ==
    \/ body.kind = "null"
    \/ ~body.menu.hasDays
    \/ \E i \in DOMAIN body.menu.days :
          \/ body.menu.days[i].null
          \/ HasNullCourse(body.menu.days[i].courses)

\* showWeeklyMenu after its await (part_000:713-765)
WeeklyShown(overlay, name, call) ==
    IF call.st = "rejected" \/ WeeklyThrows(call.res.body)
    THEN DisplayText(name, NoMenuPlaceholder)
    ELSE LET days == call.res.body.menu.days
             html == IF Len(days) = 1 /\ days[1].hasCourses
                     THEN Buckets(days[1].courses, 0)
                     ELSE Sections(days, 1)
         IN  DisplayText(name \o " - menuWeek",
                         IF html = <<>> THEN NoMenuPlaceholder ELSE html)

\* showDailyMenu(id) or showWeeklyMenu(id) up to its await: nothing for an
\* id the directory does not have, else the menu request
ShowMenuClickWithin(c, inFlight) ==
    /\ page = "ready"
    /\ \E id \in RestaurantIds :
          IF NameOf(restaurants, id) = Undef
          THEN /\ lastOp' = IdOp("showMenu", "-", id, JUndef, FALSE)
               /\ UNCHANGED <<calls, menuLog>>
          ELSE /\ calls[c].st = "idle"
               /\ InFlight < inFlight
               /\ calls' = [calls EXCEPT ![c] = [Sent(NoOptions) EXCEPT !.arg = Arg(id, Undef)]]
               /\ menuLog' = [menuLog EXCEPT !.sent = Append(@, c)]
               /\ lastOp' = IdOp("apiFetch", c, id, JUndef, FALSE)
    /\ UNCHANGED <<page, token, currentUser, store, restaurants, listView, cityOptions,
                   providerOptions, listRenders, loginT, listBefore, envVars,
                   browseVars, menuDisplay>>

ShowMenuClick(c) == ShowMenuClickWithin(c, MaxInFlight)

ShowDailyMenu == ShowMenuClick("daily")

ShowWeeklyMenu == ShowMenuClick("weekly")

\* the viewer after its await: the overlay, and whether an exception got
\* out of the handler's try block unhandled
\* the requests sent before that of c and still under way
SentBefore(c) ==
    {menuLog.sent[k] : k \in {j \in DOMAIN menuLog.sent :
                                 \E i \in DOMAIN menuLog.sent : i > j /\ menuLog.sent[i] = c}}

\* the log once the handler of c has resumed
Resumed(c) ==
    [sent |-> SelectSeq(menuLog.sent, LAMBDA x : x # c),
     overtaken |-> (menuLog.overtaken \cup SentBefore(c)) \ {c},
     stale |-> c \in menuLog.overtaken]

\* a viewer that drops the response of a request overtaken by a later one
ShowMenuContinuesGuarded(c, shown) ==
    /\ page = "ready"
    /\ calls[c].st \in {"resolved", "rejected"}
    /\ menuDisplay' = IF c \in menuLog.overtaken THEN menuDisplay ELSE shown.overlay
    /\ menuLog' = Resumed(c)
    /\ lastOp' = IdOp(IF c = "daily" THEN "showDailyMenu" ELSE "showWeeklyMenu", "-",
                      calls[c].arg.id, JUndef, shown.threw)
    /\ calls' = [calls EXCEPT ![c] = IdleCall]
    /\ UNCHANGED <<page, token, currentUser, store, restaurants, listView, cityOptions,
                   providerOptions, listRenders, loginT, listBefore, envVars,
                   browseVars>>

ShowMenuContinues(c, shown) ==
    /\ page = "ready"
    /\ calls[c].st \in {"resolved", "rejected"}
    /\ menuDisplay' = shown.overlay
    /\ menuLog' = Resumed(c)
    /\ lastOp' = IdOp(IF c = "daily" THEN "showDailyMenu" ELSE "showWeeklyMenu", "-",
                      calls[c].arg.id, JUndef, shown.threw)
    /\ calls' = [calls EXCEPT ![c] = IdleCall]
    /\ UNCHANGED <<page, token, currentUser, store, restaurants, listView, cityOptions,
                   providerOptions, listRenders, loginT, listBefore, envVars,
                   browseVars>>

ShowDailyMenuContinues ==
    ShowMenuContinues("daily",
        DailyShown(menuDisplay, NameOf(BrowseOrder, calls["daily"].arg.id), calls["daily"]))

ShowWeeklyMenuContinues ==
    ShowMenuContinues("weekly",
        WeeklyShown(menuDisplay, NameOf(BrowseOrder, calls["weekly"].arg.id),
                    calls["weekly"]))

\* click on closeMenu (part_000:1001-1004)
CloseMenu ==
    /\ page = "ready"
    /\ menuDisplay.shown
    /\ menuDisplay' = [menuDisplay EXCEPT !.shown = FALSE]
    /\ lastOp' = NoOp
    /\ UNCHANGED <<page, token, currentUser, store, restaurants, listView, cityOptions,
                   providerOptions, listRenders, calls, loginT, listBefore, envVars,
                   browseVars, menuLog>>

----------------------------------------------------------------------------
(* Registration (part_000:906-922).                                        *)

\* the keys of el as initializeElements assigns them (part_000:823-857)
ElKeys ==
    {"langSelect", "loginBtn", "registerBtn", "profileBtn", "logoutBtn", "themeToggle",
     "cityFilter", "providerFilter", "searchInput", "restaurantList", "menuDisplay",
     "closeMenu", "menuTitle", "menuContent", "loginModal", "registerModal",
     "closeLogin", "closeRegister", "doLogin", "doRegister", "loginUser", "loginPass",
     "regUser", "regEmail", "regPass", "profileSection", "profilePic", "uploadPic",
     "username", "email", "favoriteRestaurant", "updateProfile", "scrollToTop"}

\* the characters of [a-zA-Z0-9_-]
UsernameChars == "abcdefghijklmnopqrstuvwxyzABCDEFGHIJKLMNOPQRSTUVWXYZ0123456789_-"

\* /^[a-zA-Z0-9_-]{3,20}$/.test(username) (part_000:116-121)
IsValidUsername(username) ==
    /\ Len(username) \in 3..20
    /\ \A i \in 1..Len(username) :
          \E j \in 1..Len(UsernameChars) :
             SubSeq(username, i, i) = SubSeq(UsernameChars, j, j)

\* what the user may have typed into the registration form
RegNames == {"", "ab", " bob ", "<b>"}
RegPasswords == {"", "short", "secret1"}

\* click on doRegister (part_000:906-913): the first statement reads
\* el.regPassConfirm.value; el has no such key, so the read throws a
\* TypeError and the handler ends there. With the key, the four checks
\* follow and POST /users is sent
DoRegisterClick ==
    /\ page = "ready"
    /\ calls["register"].st = "idle"
    /\ \E name \in RegNames, p \in RegPasswords, pc \in RegPasswords :
          LET u == Trim(name)
          IN  IF "regPassConfirm" \notin ElKeys
              THEN /\ lastOp' = [IdOp("doRegister", "-", u, JUndef, TRUE) EXCEPT !.tkn = p]
                   /\ UNCHANGED calls
              ELSE IF u = "" \/ p = "" \/ pc = "" \/ ~IsValidUsername(u) \/ Len(p) < 6
                         \/ p # pc
              THEN /\ lastOp' = [IdOp("doRegister", "-", u, JUndef, FALSE) EXCEPT !.tkn = p]
                   /\ UNCHANGED calls
              ELSE /\ InFlight < MaxInFlight
                   /\ calls' = [calls EXCEPT !["register"] =
                          Sent([headers |-> NoHeaders, body |-> "json"])]
                   /\ lastOp' = [IdOp("doRegister", "register", u, JUndef, FALSE)
                                    EXCEPT !.tkn = p]
    /\ UNCHANGED <<page, token, currentUser, store, restaurants, listView, cityOptions,
                   providerOptions, listRenders, loginT, listBefore, envVars,
                   browseVars, menuDisplay, menuLog>>

----------------------------------------------------------------------------
(* The filter controls (part_000:879-881).                                 *)

\* the values of a select: the fixed first option and the options added
SelectValues(options) == {""} \cup {options[i] : i \in DOMAIN options}

\* what the user may have typed into the search box
SearchTexts == {"", "   ", "aB "}

\* a change of a control that calls filterAndRender(): the controls have
\* the values given when the handler runs
ControlChanged(city, provider, search) ==
    /\ page = "ready"
    /\ RenderCapacity
    /\ cityFilter' = city
    /\ providerFilter' = provider
    /\ searchInput' = search
    /\ LET r == FilterAndRenderAt(city, provider, search, currentUser)
       IN  /\ listView' = r.listView
           /\ listRenders' = r.listRenders
           /\ map' = r.map
           /\ markers' = r.markers
           /\ mapRenders' = r.mapRenders
           /\ mapRetries' = r.mapRetries
    /\ lastOp' = RenderOp("filterAndRender",
                          Filtered(restaurants, city, provider, search),
                          IF Immediate THEN ImmediateLocation ELSE Undef)
    /\ UNCHANGED <<page, token, currentUser, store, restaurants, cityOptions,
                   providerOptions, calls, loginT, listBefore, envVars, userLocation,
                   menuDisplay, menuLog>>

\* el.cityFilter.onchange
CityFilterChange ==
    \E v \in SelectValues(cityOptions) :
        v # cityFilter /\ ControlChanged(v, providerFilter, searchInput)

\* el.providerFilter.onchange
ProviderFilterChange ==
    \E v \in SelectValues(providerOptions) :
        v # providerFilter /\ ControlChanged(cityFilter, v, searchInput)

\* el.searchInput.oninput: filterAndRender() only for an empty box or more
\* than two characters
SearchInputOf(texts) ==
    \E v \in texts :
        /\ v # searchInput
        /\ IF Len(v) = 0 \/ Len(v) > 2
           THEN ControlChanged(cityFilter, providerFilter, v)
           ELSE /\ page = "ready"
                /\ searchInput' = v
                /\ lastOp' = NoOp
                /\ UNCHANGED <<page, token, currentUser, store, restaurants, listView,
                               cityOptions, providerOptions, listRenders, calls, loginT,
                               listBefore, envVars, userLocation, map, markers,
                               mapRenders, mapRetries, cityFilter, providerFilter, menuDisplay, menuLog>>

SearchInput == SearchInputOf(SearchTexts)

\* the texts of a user who also stops typing after one character
TypedTexts == SearchTexts \cup {"a"}

SearchInputTyped == SearchInputOf(TypedTexts)

\* change of el.langSelect (part_000:873-877): the labels are rewritten and
\* filterAndRender() runs on the controls as they are
LangSelectChange == ControlChanged(cityFilter, providerFilter, searchInput)

Next ==
    \/ DOMContentLoaded
    \/ Reload
    \/ ApiFetchDirect
    \/ FetchSettles
    \/ DirectReturns
    \/ FetchRestaurantsContinues
    \/ RenderRestaurantsResumes
    \/ DoLoginClick
    \/ DoLoginContinues
    \/ LogoutClick

Spec == Init /\ [][Next]_vars

NextSharedStore == Next \/ StorageChangedElsewhere

\* the page with other writers of its localStorage
SpecSharedStore == Init /\ [][NextSharedStore]_vars

\* the page of a visitor who uses the account handlers
NextAccount ==
    \/ DOMContentLoaded
    \/ FetchSettles
    \/ FetchRestaurantsContinues
    \/ RenderRestaurantsResumes
    \/ SetFavoriteClick
    \/ SetFavoriteContinues
    \/ UpdateProfileClick
    \/ UpdateProfileContinues

SpecAccount == Init /\ [][NextAccount]_vars

\* the page of a visitor who fills in the registration form
NextRegister ==
    \/ DOMContentLoaded
    \/ FetchSettles
    \/ FetchRestaurantsContinues
    \/ RenderRestaurantsResumes
    \/ DoRegisterClick

SpecRegister == Init /\ [][NextRegister]_vars

\* the page of a visitor who opens menus
NextMenu ==
    \/ DOMContentLoaded
    \/ FetchSettles
    \/ FetchRestaurantsContinues
    \/ RenderRestaurantsResumes
    \/ ShowDailyMenu
    \/ ShowDailyMenuContinues
    \/ ShowWeeklyMenu
    \/ ShowWeeklyMenuContinues
    \/ CloseMenu

SpecMenu == Init /\ [][NextMenu]_vars

\* the sessions a page may have been loaded with: none, or the stored login
\* of a user whose favourite is r1
Sessions ==
    {[token |-> Null, currentUser |-> JNull, store |-> Logout.store],
     SaveAuth(JObj("v", "r1"), "t1")}

\* the page as a successful directory refresh leaves it (part_000:779-785),
\* for each directory, session and answer of the browser to geolocation
\* requests: the filters populated, both renders suspended, the map created
InitBrowse ==
    /\ page = "ready"
    /\ \E s \in Sessions :
          /\ token = s.token
          /\ currentUser = s.currentUser
          /\ store = s.store
    /\ restaurants \in Directories
    /\ listView = View("loading", <<>>)
    /\ cityOptions = PopulateFilters(restaurants).cities
    /\ providerOptions = PopulateFilters(restaurants).companies
    /\ listRenders = <<restaurants>>
    /\ calls = [c \in Callers |-> IdleCall]
    /\ googleMaps = TRUE
    /\ geolocation \in {"granted", "denied"}
    /\ userLocation = Null
    /\ map = MapInstance(Null)
    /\ markers = <<>>
    /\ mapRenders = 1
    /\ mapRetries = 0
    /\ cityFilter = ""
    /\ providerFilter = ""
    /\ searchInput = ""
    /\ menuDisplay = NoOverlay
    /\ menuLog = NoMenuLog
    /\ loginT = Null
    /\ listBefore = <<>>
    /\ lastOp = Op("fetchRestaurantsOk", "-", JUndef, Undef, FALSE, restaurants)

\* the page of a visitor who filters the directory
NextBrowse ==
    \/ RenderRestaurantsResumes
    \/ RenderMapResumes
    \/ CityFilterChange
    \/ ProviderFilterChange
    \/ SearchInput

SpecBrowse == InitBrowse /\ [][NextBrowse]_vars

\* the page from its load on, whatever the browser does for geolocation,
\* the Maps script not yet loaded
InitMapLoad ==
    /\ InitPage
    /\ store = Logout.store
    /\ googleMaps = FALSE
    /\ geolocation \in GeolocationAnswers

\* the page while the Maps script loads late: the refresh, the renders, the
\* retries of renderMap, and a visitor who picks cities
NextMapLoad ==
    \/ DOMContentLoaded
    \/ FetchSettles
    \/ FetchRestaurantsContinues
    \/ RenderRestaurantsResumes
    \/ RenderMapResumes
    \/ GoogleMapsLoads
    \/ RenderMapRetry
    \/ CityFilterChange

\* timers fire (setTimeout of 1 s), and the browser answers a geolocation
\* request with one of its callbacks (the timeout option of part_000:366)
SpecMapLoad ==
    /\ InitMapLoad
    /\ [][NextMapLoad]_vars
    /\ WF_vars(RenderMapRetry)
    /\ WF_vars(RenderMapResumes)
    /\ WF_vars(RenderRestaurantsResumes)

\* the page loading without a stored session or with the one a login has
\* stored before its reload (part_000:930-933), in a browser that has the
\* Maps script and answers geolocation requests
InitControls ==
    /\ InitPage
    /\ store \in {Logout.store, SaveAuth(JObj("u", Undef), "t1").store}
    /\ googleMaps = TRUE
    /\ geolocation \in {"granted", "denied"}

\* the page of a visitor who filters, types and switches the language
NextControls ==
    \/ DOMContentLoaded
    \/ Reload
    \/ FetchSettles
    \/ FetchRestaurantsContinues
    \/ RenderRestaurantsResumes
    \/ RenderMapResumes
    \/ CityFilterChange
    \/ ProviderFilterChange
    \/ SearchInputTyped
    \/ LangSelectChange

SpecControls == InitControls /\ [][NextControls]_vars

\* the page loading without a stored session
InitWeek == Init /\ store = Logout.store

\* the page of a visitor who opens weekly menus
NextWeek ==
    \/ DOMContentLoaded
    \/ FetchSettles
    \/ WeekSettles
    \/ FetchRestaurantsContinues
    \/ RenderRestaurantsResumes
    \/ ShowWeeklyMenu
    \/ ShowWeeklyMenuContinues
    \/ CloseMenu

SpecWeek == InitWeek /\ [][NextWeek]_vars

\* a second menu is opened before the first has answered
OpenDailyMenu == ShowMenuClickWithin("daily", MaxOpenMenus)

OpenWeeklyMenu == ShowMenuClickWithin("weekly", MaxOpenMenus)

\* the page of a visitor who opens one menu after the other without waiting
NextMenus ==
    \/ DOMContentLoaded
    \/ FetchSettles
    \/ FetchRestaurantsContinues
    \/ RenderRestaurantsResumes
    \/ OpenDailyMenu
    \/ OpenWeeklyMenu
    \/ ShowDailyMenuContinues
    \/ ShowWeeklyMenuContinues
    \/ CloseMenu

SpecMenus == InitWeek /\ [][NextMenus]_vars

\* the page of a visitor of a browser whose store only this page writes:
\* logging in and out, reloading, setting a favourite, updating the profile
NextSession ==
    \/ DOMContentLoaded
    \/ Reload
    \/ FetchSettles
    \/ FetchRestaurantsContinues
    \/ RenderRestaurantsResumes
    \/ DoLoginClick
    \/ DoLoginContinues
    \/ LogoutClick
    \/ SetFavoriteClick
    \/ SetFavoriteContinues
    \/ UpdateProfileClick
    \/ UpdateProfileContinues

SpecSession == InitWeek /\ [][NextSession]_vars

\* the page from its load on with nobody touching it: the refresh, its two
\* renders, the Maps script loading late, the permission changing
NextLocation ==
    \/ DOMContentLoaded
    \/ FetchSettles
    \/ FetchRestaurantsContinues
    \/ RenderRestaurantsResumes
    \/ RenderMapResumes
    \/ GoogleMapsLoads
    \/ RenderMapRetry
    \/ PermissionChanges

\* the browser answers every geolocation request with one of its callbacks,
\* after 10 s at the latest (part_000:360-367), and timers fire
SpecLocation ==
    /\ InitMapLoad
    /\ [][NextLocation]_vars
    /\ WF_vars(RenderRestaurantsResumes)
    /\ WF_vars(RenderMapResumes)
    /\ WF_vars(RenderMapRetry)

----------------------------------------------------------------------------
(* Properties.                                                             *)

Settled(c) == calls[c].st \in {"resolved", "rejected"}

\* the response of c came with a status outside 200..299
NonOkResponse(c) ==
    Settled(c) /\ calls[c].res.fail = Undef /\ ~Ok(calls[c].res.status)

\* the fetch of c was rejected: no response
TransportFailure(c) == Settled(c) /\ calls[c].res.fail # Undef

\* C1: for every response with a status outside the success range apiFetch
\* rejects with the body's message field if there is one, and with exactly
\* "HTTP <status>" if there is none.
C1_RejectsWithServerMessageOrStatus ==
    \A c \in Callers :
        NonOkResponse(c) =>
            /\ calls[c].st = "rejected"
            /\ calls[c].err = IF Truthy(calls[c].res.body.message)
                              THEN calls[c].res.body.message
                              ELSE "HTTP " \o ToString(calls[c].res.status)

\* C2: every failing apiFetch call (non-2xx, transport failure, unparsable
\* body) has raised exactly one alert by the time its promise is rejected,
\* the alert is about the error the caller gets (its message, or the fixed
\* text standing for it), and that error is the one the try block threw;
\* a successful call raises no alert.
C2_OneAlertPerFailure ==
    \A c \in Callers :
        /\ Settled(c) /\ (TransportFailure(c) \/ NonOkResponse(c)
                            \/ calls[c].res.body.kind = "unparsable")
              => /\ calls[c].st = "rejected"
                 /\ Len(calls[c].alerts) = 1
                 /\ calls[c].alerts[1] \in {calls[c].err, NoConnectionText}
                 /\ calls[c].err = Thrown(calls[c].res)
        /\ calls[c].st = "resolved" => calls[c].alerts = <<>>

C2_Witness ==
    /\ calls["login"].st = "rejected"
    /\ calls["login"].res.status = 404
    /\ calls["login"].res.body.message = "Not found"
    /\ calls["login"].alerts = <<"Not found">>

\* C3: a transport failure is always notified with the fixed text "Ei
\* yhteyttä palvelimeen"; a non-2xx answer is notified with the server's
\* message and never with the fixed text.
C3_FailureKindsDistinguishable ==
    \A c \in Callers :
        /\ TransportFailure(c) => calls[c].alerts = <<NoConnectionText>>
        /\ NonOkResponse(c)
              => /\ calls[c].alerts # <<NoConnectionText>>
                 /\ Truthy(calls[c].res.body.message)
                       => calls[c].alerts = <<calls[c].res.body.message>>

\* the request that the last step sent, and the options it was sent with
SentBy(c) == lastOp.sent = c

\* C4: the request carries Authorization: Bearer <token> exactly when a
\* token exists, the in-memory token if it is set and the store's token
\* entry otherwise; without a token apiFetch adds no Authorization header;
\* every header the caller supplied is in the request, and those apiFetch
\* does not compute itself unchanged.
C4_BearerTokenAndMergedHeaders ==
    \A c \in Callers :
        SentBy(c) =>
            LET h == calls[c].headers
                given == calls[c].opts.headers
            IN  /\ Truthy(token) => h["Authorization"] = "Bearer " \o token
                /\ ~Truthy(token) /\ Truthy(store.token)
                      => h["Authorization"] = "Bearer " \o store.token
                /\ ~Truthy(token) /\ ~Truthy(store.token)
                      => h["Authorization"] = given["Authorization"]
                /\ \A n \in HeaderNames : given[n] # Undef => h[n] # Undef
                /\ h["X-Request-Id"] = given["X-Request-Id"]

C4_Witness ==
    /\ SentBy("direct")
    /\ token = "t1"
    /\ store.token = "t2"
    /\ calls["direct"].opts.headers["X-Request-Id"] = "42"
    /\ calls["direct"].headers["Authorization"] = "Bearer t1"

\* C5: after a successful login answered {token: T, data: U} the store
\* holds T and the text of U, and every request sent from then on, until
\* the next logout (or login), carries Authorization: Bearer T.
C5_LoginTokenOnLaterRequests ==
    /\ lastOp.op = "saveAuth" /\ loginT # Null
          => /\ store.token = loginT
             /\ store.currentUser = JSONstringify(lastOp.user)
             /\ JSONparse(store.currentUser) = [ok |-> TRUE, value |-> lastOp.user]
    /\ \A c \in Callers :
          SentBy(c) /\ loginT # Null
              => calls[c].headers["Authorization"] = "Bearer " \o loginT

C5_Witness ==
    /\ SentBy("restaurants")
    /\ loginT = "t2"
    /\ calls["restaurants"].headers["Authorization"] = "Bearer t2"

\* C6: after saveAuth(user, token), for a user object and a token string and
\* whatever the session was before, the store's token entry is token, its
\* currentUser entry parses to user, and the in-memory token and user are
\* the arguments.
C6_SaveAuthPersists ==
    lastOp.op = "saveAuth" /\ lastOp.user.ty = "obj" /\ Truthy(lastOp.tkn)
        => /\ store.token = lastOp.tkn
           /\ JSONparse(store.currentUser) = [ok |-> TRUE, value |-> lastOp.user]
           /\ token = lastOp.tkn
           /\ currentUser = lastOp.user

C6_Witness ==
    /\ lastOp.op = "saveAuth"
    /\ lastOp.user = JObj("v", "r1")
    /\ lastOp.tkn = "t2"
    /\ store.token = "t2"

\* C7: loadAuth sets the in-memory user (from the store) only when both
\* entries are in the store; when the stored user is no valid JSON it does
\* not throw and no user is set.
C7_LoadAuthNeedsBothEntries ==
    lastOp.op = "loadAuth"
        => /\ ~lastOp.threw
           /\ currentUser # JNull
                 => /\ store.token # Null
                    /\ store.currentUser # TextAbsent
                    /\ JSONparse(store.currentUser) = [ok |-> TRUE, value |-> currentUser]
           /\ store.currentUser # TextAbsent /\ ~JSONparse(store.currentUser).ok
                 => currentUser = JNull

C7_Witness ==
    /\ lastOp.op = "loadAuth"
    /\ store.token = "t1"
    /\ store.currentUser = TextRaw("x")
    /\ currentUser = JNull
    /\ calls["restaurants"].st = "sent"

\* C8: after logout, whatever the session was, the store has neither entry
\* and the in-memory token and user are null.
C8_LogoutClearsSession ==
    lastOp.op = "logout"
        => /\ store.token = Null
           /\ store.currentUser = TextAbsent
           /\ token = Null
           /\ currentUser = JNull

C8_Witness ==
    /\ lastOp.op = "logout"
    /\ lastOp.user.ty = "obj"
    /\ lastOp.tkn = "t1"
    /\ store = [token |-> Null, currentUser |-> TextAbsent]

\* C9 as stated: with a FormData body the request has no JSON Content-Type
\* header, whatever headers the caller passed; every other request has
\* Content-Type: application/json; the FormData request still carries the
\* Authorization header when a token exists.
C9_NoJsonContentTypeOnFormData ==
    \A c \in Callers :
        SentBy(c) =>
            LET h == calls[c].headers
            IN  /\ calls[c].opts.body = "formdata" => h["Content-Type"] # "application/json"
                /\ calls[c].opts.body # "formdata" => h["Content-Type"] = "application/json"
                /\ calls[c].opts.body = "formdata" /\ Truthy(token)
                      => h["Authorization"] = "Bearer " \o token

\* C9 amended: with a FormData body apiFetch sets no Content-Type itself, so
\* the request has one only if the caller passed it (none when the caller
\* passed none); every other request has Content-Type: application/json;
\* the FormData request still carries the Authorization header when a
\* token exists.
C9_NoContentTypeAddedOnFormData ==
    \A c \in Callers :
        SentBy(c) =>
            LET h == calls[c].headers
                given == calls[c].opts.headers
            IN  /\ calls[c].opts.body = "formdata" => h["Content-Type"] = given["Content-Type"]
                /\ calls[c].opts.body # "formdata" => h["Content-Type"] = "application/json"
                /\ calls[c].opts.body = "formdata" /\ Truthy(token)
                      => h["Authorization"] = "Bearer " \o token
                /\ calls[c].opts.body = "formdata" /\ ~Truthy(token) /\ Truthy(store.token)
                      => h["Authorization"] = "Bearer " \o store.token

C9_Witness ==
    /\ SentBy("direct")
    /\ calls["direct"].opts = [headers |-> NoHeaders, body |-> "formdata"]
    /\ calls["direct"].headers["Content-Type"] = Undef
    /\ calls["direct"].headers["Authorization"] = "Bearer t1"

\* C10: when the restaurant-list request is rejected, the in-memory list is
\* the list held when the refresh started and the list view shows the error
\* line; when it succeeds, the in-memory list is the response, whole.
C10_RefreshKeepsOrReplacesList ==
    /\ lastOp.op = "fetchRestaurantsFailed"
          => /\ restaurants = listBefore
             /\ listView = View("error", <<>>)
    /\ lastOp.op = "fetchRestaurantsOk" => restaurants = lastOp.list

C10_Witness ==
    /\ lastOp.op = "fetchRestaurantsFailed"
    /\ listView = View("error", <<>>)
    /\ restaurants = <<>>

C10_WitnessReplaced ==
    /\ lastOp.op = "fetchRestaurantsOk"
    /\ Len(restaurants) = 2

\* the call a handler of the account waits for
AccountCall(op) == IF op = "setFavorite" THEN "favourite" ELSE "profile"

\* the step is the tail of setFavoriteRestaurant or of the profile update
AccountStep == lastOp'.op \in {"setFavorite", "updateProfile"}

\* the user in memory and the stored user are what they were
UserKept == currentUser' = currentUser /\ store'.currentUser = store.currentUser

\* C11: a set-favourite or profile-update request that fails (transport
\* failure, status outside 200..299, unparsable body) leaves the user in
\* memory and the stored user unchanged; the two are written only by a tail
\* whose request the server accepted, and sending the request writes neither.
C11_FailedUpdateLeavesUser ==
    [][ /\ lastOp'.sent \in {"favourite", "profile"} => UserKept
        /\ AccountStep =>
              LET call == calls[AccountCall(lastOp'.op)]
              IN  /\ call.st = "rejected" => UserKept /\ ~lastOp'.threw
                  /\ ~UserKept => /\ call.st = "resolved"
                                  /\ Ok(call.res.status)
                                  /\ call.res.fail = Undef ]_vars

\* a set-favourite request for r2 failed, and the logged-in user and the
\* stored user still agree on another favourite
C11_Witness ==
    /\ lastOp.op = "setFavorite"
    /\ lastOp.id = "r2"
    /\ ~lastOp.threw
    /\ currentUser.ty = "obj"
    /\ currentUser.favouriteRestaurant # "r2"
    /\ store.currentUser = JSONstringify(currentUser)
    /\ calls["favourite"].st = "idle"

\* the name contains the text, letter case ignored
ContainsIgnoringCase(name, text) == Includes(ToLowerCase(name), ToLowerCase(text))

\* the restaurants of the directory, in its order, that satisfy every active
\* predicate; a predicate with an empty argument is not active
Satisfying(directory, city, provider, text) ==
    SelectSeq(directory, LAMBDA r :
        /\ city = "" \/ r.city = city
        /\ provider = "" \/ r.company = provider
        /\ text = "" \/ ContainsIgnoringCase(r.name, text))

\* the list filterAndRender computed is the one its render works on
FilteredListRendered ==
    IF lastOp.loc = Undef
    THEN listRenders # <<>> /\ listRenders[Len(listRenders)] = lastOp.list
    ELSE /\ listView.kind = IF lastOp.list = <<>> THEN "noResults" ELSE "cards"
         /\ Len(listView.shown) = Len(lastOp.list)
         /\ {listView.shown[i] : i \in DOMAIN listView.shown}
               = {lastOp.list[i].id : i \in DOMAIN lastOp.list}

\* C12 as stated: the filtered list is exactly the restaurants of the
\* directory, in directory order, whose city equals the chosen city, whose
\* provider equals the chosen provider and whose name contains the search
\* text case-insensitively; an empty argument removes nothing.
C12_FilteredBySearchText ==
    lastOp.op = "filterAndRender" =>
        /\ lastOp.list = Satisfying(restaurants, cityFilter, providerFilter, searchInput)
        /\ FilteredListRendered

\* C12 amended: the same with the search text trimmed of surrounding white
\* space before it is compared or found empty.
C12_FilteredByTrimmedSearchText ==
    lastOp.op = "filterAndRender" =>
        /\ lastOp.list = Satisfying(restaurants, cityFilter, providerFilter,
                                    Trim(searchInput))
        /\ FilteredListRendered

\* city and search text are both active on a directory of three, and the
\* one restaurant of Helsinki with "ab" in its name is left
C12_Witness ==
    /\ lastOp.op = "filterAndRender"
    /\ Len(restaurants) = 3
    /\ cityFilter = "Helsinki"
    /\ providerFilter = ""
    /\ searchInput = "aB "
    /\ lastOp.list = <<BrowseOrder[3]>>
    /\ listView.shown = <<"r3">>

\* the values a filter control can hold for the restaurants of the pool
CityChoices == {""} \cup {r.city : r \in BrowsePool}
ProviderChoices == {""} \cup {r.company : r \in BrowsePool}

\* the three predicates applied to the directory in each of the six orders
\* give one and the same list
OrderIndependent(city, provider, search) ==
    LET C(l) == CityStep(l, city)
        P(l) == ProviderStep(l, provider)
        S(l) == SearchStep(l, search)
        coded == Filtered(restaurants, city, provider, search)
    IN  /\ coded = S(P(C(restaurants)))
        /\ coded = P(S(C(restaurants)))
        /\ coded = S(C(P(restaurants)))
        /\ coded = C(S(P(restaurants)))
        /\ coded = P(C(S(restaurants)))
        /\ coded = C(P(S(restaurants)))

\* C13: filtering is order-independent: for every directory a refresh
\* brings and every choice of city, provider and search text, applying the
\* three predicates in any order yields the list filterAndRender computes;
\* and the list a filter change computed is the one every order yields for
\* the values the controls hold.
C13_FilterOrderIndependent ==
    /\ lastOp.op = "fetchRestaurantsOk" =>
          \A city \in CityChoices, provider \in ProviderChoices, search \in SearchTexts :
              OrderIndependent(city, provider, search)
    /\ lastOp.op = "filterAndRender" =>
          /\ lastOp.list = Filtered(restaurants, cityFilter, providerFilter, searchInput)
          /\ OrderIndependent(cityFilter, providerFilter, searchInput)

\* city and provider are both active and each alone would keep more: the
\* two restaurants of Helsinki and the two of Sodexo share one
C13_Witness ==
    /\ lastOp.op = "filterAndRender"
    /\ Len(restaurants) = 3
    /\ cityFilter = "Helsinki"
    /\ providerFilter = "Sodexo"
    /\ Len(CityStep(restaurants, cityFilter)) = 2
    /\ Len(ProviderStep(restaurants, providerFilter)) = 2
    /\ lastOp.list = <<BrowseOrder[1]>>

\* a renderRestaurants has just completed on the list lastOp.list with the
\* location lastOp.loc: resumed after the browser answered, or run to its
\* end within filterAndRender with the cached location
RenderComplete ==
    \/ lastOp.op = "renderRestaurants"
    \/ lastOp.op = "filterAndRender" /\ lastOp.loc # Undef

\* the identifiers of a list, in its order
Ids(list) == [i \in DOMAIN list |-> list[i].id]

\* the favourite, if the list has it, followed by the others in their order
FavouriteFirst(ids, fav) ==
    (IF \E i \in DOMAIN ids : ids[i] = fav THEN <<fav>> ELSE <<>>)
        \o SelectSeq(ids, LAMBDA id : id # fav)

\* C14: when the logged-in user has a favourite restaurant and it is in the
\* list being rendered, it is shown first whether or not the location is
\* known; all other restaurants keep their relative input order.
C14_FavouriteFirst ==
    (RenderComplete /\ currentUser.ty = "obj"
                    /\ Truthy(currentUser.favouriteRestaurant)) =>
        listView.shown = FavouriteFirst(Ids(lastOp.list), currentUser.favouriteRestaurant)

\* the favourite r1 is last in the input and the farthest away, the location
\* is known, and r1 is shown first with r3, r2 after it in input order
C14_Witness ==
    /\ lastOp.op = "renderRestaurants"
    /\ lastOp.loc = Here
    /\ currentUser.favouriteRestaurant = "r1"
    /\ Ids(lastOp.list) = <<"r3", "r2", "r1">>
    /\ listView.shown = <<"r1", "r3", "r2">>

\* the coordinates of the restaurant with this identifier
CoordinatesOf(id) == (CHOOSE r \in BrowsePool : r.id = id).coordinates

Alphabet == "ABCDEFGHIJKLMNOPQRSTUVWXYZabcdefghijklmnopqrstuvwxyz"

CodeUnitRank(ch) == CHOOSE i \in 1..Len(Alphabet) : SubSeq(Alphabet, i, i) = ch

RECURSIVE Before(_, _)
\* a comes strictly before b in the order of Array.prototype.sort() without
\* a comparator: code unit by code unit, a proper prefix first
Before(a, b) ==
    IF a = "" THEN b # ""
    ELSE IF b = "" THEN FALSE
    ELSE IF SubSeq(a, 1, 1) = SubSeq(b, 1, 1)
    THEN Before(SubSeq(a, 2, Len(a)), SubSeq(b, 2, Len(b)))
    ELSE CodeUnitRank(SubSeq(a, 1, 1)) < CodeUnitRank(SubSeq(b, 1, 1))

\* the options are exactly the values, each once, in ascending order
OffersExactly(options, values) ==
    /\ {options[i] : i \in DOMAIN options} = values
    /\ \A i, j \in DOMAIN options : i < j => Before(options[i], options[j])

\* C16: after a successful refresh the city filter offers exactly the
\* distinct cities of the directory and the provider filter exactly its
\* distinct providers, each sorted ascending; however often the page is
\* loaded and refreshed, no option list ever holds a value twice or a value
\* that is not in the directory.
C16_FiltersOfferDistinctSorted ==
    /\ lastOp.op = "fetchRestaurantsOk" => lastOp.list = restaurants
    /\ OffersExactly(cityOptions, {restaurants[i].city : i \in DOMAIN restaurants})
    /\ OffersExactly(providerOptions,
                     {restaurants[i].company : i \in DOMAIN restaurants})

\* a refresh brought two restaurants of one provider, Helsinki before
\* Espoo, and the filters offer the two cities sorted and the provider once
C16_Witness ==
    /\ lastOp.op = "fetchRestaurantsOk"
    /\ Len(restaurants) = 2
    /\ restaurants[1].city = "Helsinki"
    /\ restaurants[2].city = "Espoo"
    /\ cityOptions = <<"Espoo", "Helsinki">>
    /\ providerOptions = <<"Sodexo">>

\* the handler whose tail the step is
MenuOp(c) == IF c = "daily" THEN "showDailyMenu" ELSE "showWeeklyMenu"

\* the menu data of the answer cannot be read as the viewer reads it
MalformedMenu(c, body) ==
    IF c = "daily"
    THEN body.kind = "null" \/ HasNullCourse(body.menu.courses)
    ELSE WeeklyThrows(body)

\* the menu request the handler waited for failed: apiFetch rejected
\* (transport failure, status outside 200..299, unparsable body), or the
\* menu data is malformed
MenuFailed(c) ==
    /\ calls[c].st \in {"resolved", "rejected"}
    /\ calls[c].st = "rejected" \/ MalformedMenu(c, calls[c].res.body)

\* C17: when the menu request of showDailyMenu or showWeeklyMenu fails in
\* any way (transport failure, non-2xx, malformed menu data), the overlay is
\* shown with the restaurant's name and the fixed "no meals" placeholder and
\* no exception gets out of the operation; for an id the directory does not
\* have, no request is sent and nothing changes.
C17_MenuFailureShowsPlaceholder ==
    [][ /\ \A c \in {"daily", "weekly"} :
              (lastOp'.op = MenuOp(c) /\ MenuFailed(c)) =>
                  /\ menuDisplay' = Overlay(TRUE, NameOf(restaurants, calls[c].arg.id),
                                            NoMenuPlaceholder)
                  /\ ~lastOp'.threw
        /\ lastOp'.op = "showMenu" =>
              /\ NameOf(restaurants, lastOp'.id) = Undef
              /\ UNCHANGED <<calls, menuDisplay, restaurants, listView, currentUser,
                             store>> ]_vars

\* no render of the list or of the map is suspended
RendersComplete == listRenders = <<>> /\ mapRenders = 0

\* the restaurants that have a marker on the map
Marked == {markers[i].id : i \in {k \in DOMAIN markers : markers[k].kind = "restaurant"}}

\* C18: after any filter change, once its renders are complete, the
\* restaurant markers on the map correspond to the filtered list the list
\* view shows: a restaurant the current filters exclude has no marker, and
\* every shown restaurant with coordinates has one.
C18_MarkersFollowFilters ==
    (RendersComplete /\ map # Null /\ lastOp.op \in {"filterAndRender", "renderMap",
                                                     "renderRestaurants"}) =>
        LET shown == {listView.shown[i] : i \in DOMAIN listView.shown}
        IN  /\ shown = {r.id : r \in {restaurants[i] : i \in DOMAIN restaurants} \cap
                          {x \in BrowsePool :
                              <<x>> = Filtered(<<x>>, cityFilter, providerFilter,
                                               searchInput)}}
            /\ Marked = {id \in shown : CoordinatesOf(id) # NoCoordinates}

\* C19: a registration attempt with a valid user name, a password of at
\* least 6 characters and a matching confirmation sends POST /users (and
\* then POST /auth/login, after which the user is logged in); the handler's
\* state after the click is the same whatever confirmation was typed, the
\* matching one included.
C19_ValidRegistrationIsSent ==
    (/\ lastOp.op = "doRegister"
     /\ IsValidUsername(lastOp.id)
     /\ Len(lastOp.tkn) >= 6) =>
        /\ ~lastOp.threw
        /\ lastOp.sent = "register"
        /\ calls["register"].st = "sent"

\* how many markers of this kind and identifier the map holds
MarkerCount(kind, id) ==
    Cardinality({k \in DOMAIN markers : markers[k].kind = kind /\ markers[k].id = id})

\* C20: once all map renders that were started have completed, the map
\* holds exactly one restaurant marker for each restaurant of the directory
\* with coordinates, none for the others, and at most one marker of the
\* user's location, also when a second renderMap started while an earlier
\* one was still waiting for the location.
C20_OneMarkerPerRestaurant ==
    (mapRenders = 0 /\ map # Null) =>
        /\ \A r \in BrowsePool :
              MarkerCount("restaurant", r.id) =
                  IF /\ r.coordinates # NoCoordinates
                     /\ \E i \in DOMAIN restaurants : restaurants[i] = r
                  THEN 1 ELSE 0
        /\ MarkerCount("user", Here) <= 1

\* C21: across any sequence of renderMap calls, one after the other or
\* overlapping, the map widget is created at most once: from its creation
\* on the variable map holds that one instance, which every later call
\* reuses, replacing only markers.
C21_MapCreatedOnce ==
    [][ /\ map # Null => map' = map
        /\ map' \in {Null, "map"}
        /\ map' # map => googleMaps ]_vars

\* the map exists, a third renderMap call has just started, and the two
\* before it are still waiting for the location
C21_Witness ==
    /\ map = "map"
    /\ lastOp.op = "filterAndRender"
    /\ mapRenders = 2
    /\ mapRetries = 0

\* every restaurant of the directory with coordinates has a marker
MarkersPlaced ==
    \A i \in DOMAIN restaurants :
        restaurants[i].coordinates # NoCoordinates =>
            \E k \in DOMAIN markers :
                markers[k].kind = "restaurant" /\ markers[k].id = restaurants[i].id

\* a handler or a timer has just called renderMap() and the Maps script was
\* not there
RenderMapCalledWithoutScript ==
    /\ ~googleMaps
    /\ lastOp.op \in {"fetchRestaurantsOk", "filterAndRender", "renderMapDeferred"}

\* C22: a renderMap called while the Maps script is not loaded does not
\* throw and defers itself for a retry; once the script has loaded, every
\* deferred call leads, without any user action, to the map being
\* initialized and the restaurant markers being placed.
C22_DeferredMapIsRendered ==
    /\ [](RenderMapCalledWithoutScript => mapRetries > 0 /\ map = Null)
    /\ (googleMaps /\ mapRetries > 0) ~> (map # Null /\ MarkersPlaced)

\* the Maps script has loaded after the refresh deferred its renderMap, the
\* retry has run, and the restaurant with coordinates has its marker
C22_Witness ==
    /\ googleMaps
    /\ mapRetries = 0
    /\ mapRenders = 0
    /\ map = "map"
    /\ lastOp.op = "renderMap"
    /\ Len(restaurants) = 2
    /\ \E k \in DOMAIN markers : markers[k].kind = "restaurant" /\ markers[k].id = "r1"

\* what a getUserLocation() answered by the browser resolves to
Answer == IF geolocation = "granted" THEN Here ELSE Null

\* C23: getUserLocation always settles and never rejects: a render waiting
\* on it resumes, with the location when the browser delivers one and with
\* null when permission is denied or the timeout fires; without geolocation
\* support the renders are not even suspended; and a call made once a
\* location has been obtained resolves at once to that location.
C23_GetUserLocationSettles ==
    /\ listRenders # <<>> ~> listRenders = <<>>
    /\ mapRenders > 0 ~> mapRenders = 0
    /\ [](lastOp.op \in {"renderRestaurants", "renderMap"} => lastOp.loc = Answer)
    /\ [](geolocation = "unsupported" =>
             listRenders = <<>> /\ mapRenders = 0 /\ userLocation = Null)
    /\ [][(mapRetries' < mapRetries /\ userLocation # Null) =>
             /\ mapRenders' = mapRenders
             /\ lastOp'.op = "renderMapAtOnce"
             /\ lastOp'.loc = userLocation]_vars

\* the list render got and cached the location, the permission was then
\* withdrawn, and the renderMap called after that still got the location
C23_Witness ==
    /\ lastOp.op = "renderMapAtOnce"
    /\ geolocation = "denied"
    /\ lastOp.loc = Here
    /\ userLocation = Here
    /\ \E k \in DOMAIN markers : markers[k].kind = "user"

\* a step of the loaded page
OnPage == page = "ready" /\ page' = "ready"

\* a step in which renderRestaurants(list) and renderMap() are both called:
\* with the location at hand both are through within the step, otherwise
\* both are suspended by the end of it, neither having waited for the other
StartsBothRenders(list) ==
    IF Immediate
    THEN /\ listView' = Cards(Sorted(list, currentUser', ImmediateLocation))
         /\ \A i \in DOMAIN restaurants' :
               restaurants'[i].coordinates # NoCoordinates =>
                  \E k \in DOMAIN markers' : /\ markers'[k].kind = "restaurant"
                                             /\ markers'[k].id = restaurants'[i].id
         /\ listRenders' = listRenders
         /\ mapRenders' = mapRenders
    ELSE /\ listRenders' = Append(listRenders, list)
         /\ mapRenders' + mapRetries' = mapRenders + mapRetries + 1

\* a step that calls neither renderRestaurants nor renderMap
StartsNoRender == UNCHANGED <<listRenders, map, markers, mapRenders, mapRetries>>

\* the list filterAndRender() hands to renderRestaurants after the step
FilteredAfter == Filtered(restaurants', cityFilter', providerFilter', searchInput')

\* a select or the search box changes, or filterAndRender() runs on
\* unchanged controls as it does for a language change
ControlStep ==
    /\ OnPage
    /\ \/ cityFilter' # cityFilter
       \/ providerFilter' # providerFilter
       \/ searchInput' # searchInput
       \/ lastOp'.op = "filterAndRender"

\* the directory refresh of the page load, the one after a login's reload
\* included, has succeeded
RefreshStep == lastOp'.op = "fetchRestaurantsOk"

ShownAfter == {listView'.shown[i] : i \in DOMAIN listView'.shown}

\* the restaurants matching the values the three controls have after the step
MatchingAfter == {FilteredAfter[i].id : i \in DOMAIN FilteredAfter}

\* C30: after any sequence of city, provider and search box changes, once
\* the pending renders have completed, the list view shows exactly the
\* restaurants matching the current values of the three controls, a search
\* box holding one or two characters included: stated of the moment after a
\* change that leaves no render pending.
C30_ListMatchesControls ==
    [][(ControlStep /\ listRenders' = <<>> /\ mapRenders' = 0)
           => ShownAfter = MatchingAfter]_vars

\* the weekly answer about to be shown is a week in one day: its courses
WeekCourses == calls["weekly"].res.body.menu.days[1].courses

\* showWeeklyMenu resumes with an answer whose single day has a courses field
SingleDayShown ==
    /\ calls["weekly"].st = "resolved"
    /\ ~WeeklyThrows(calls["weekly"].res.body)
    /\ Len(calls["weekly"].res.body.menu.days) = 1
    /\ calls["weekly"].res.body.menu.days[1].hasCourses
    /\ lastOp'.op = "showWeeklyMenu"

\* the lines of the overlay after the step, and where its headings are
ContentAfter == menuDisplay'.content

HeadingsAfter ==
    {k \in DOMAIN ContentAfter : \E d \in DOMAIN Weekdays : ContentAfter[k] = Weekdays[d]}

\* the line of the heading of weekday d
HeadingOf(d) == CHOOSE k \in DOMAIN ContentAfter : ContentAfter[k] = Weekdays[d]

\* the courses listed under weekday d: the lines up to the next heading,
\* none where the placeholder stands
BucketOf(d) ==
    LET last == IF d = 5 THEN Len(ContentAfter) ELSE HeadingOf(d + 1) - 1
        lines == SubSeq(ContentAfter, HeadingOf(d) + 1, last)
    IN  IF lines = NoMenuPlaceholder THEN <<>> ELSE lines

\* C26: a weekly answer with a single day of n courses is shown as exactly
\* five weekday buckets, Monday to Friday, whose concatenation is the n
\* courses in their order, each once; ten courses give two to each day.
C26_FiveBucketsPartitionCourses ==
    [][SingleDayShown =>
          /\ Cardinality(HeadingsAfter) = 5
          /\ \A d \in 1..5 : \E k \in HeadingsAfter : ContentAfter[k] = Weekdays[d]
          /\ \A d \in 1..4 : HeadingOf(d) < HeadingOf(d + 1)
          /\ HeadingOf(1) = 1
          /\ BucketOf(1) \o BucketOf(2) \o BucketOf(3) \o BucketOf(4) \o BucketOf(5)
                = Names(WeekCourses)
          /\ Len(WeekCourses) = 10 => \A d \in 1..5 : Len(BucketOf(d)) = 2]_vars

\* the overlay of a week of ten courses: five headings with two courses each
C26_Witness ==
    /\ lastOp.op = "showWeeklyMenu"
    /\ menuDisplay.shown
    /\ Len(menuDisplay.content) = 15
    /\ menuDisplay.content[1] = "Maanantai"
    /\ menuDisplay.content[2] = "c01"
    /\ menuDisplay.content[13] = "Perjantai"
    /\ menuDisplay.content[15] = "c10"

\* showWeeklyMenu has shown a week in one day: the overlay has the headings
\* Monday to Friday (the answers with a section for each day have two days
\* at most, so five headings are the five buckets)
WeekShownInBuckets ==
    /\ lastOp.op = "showWeeklyMenu"
    /\ menuDisplay.shown
    /\ \A d \in 1..5 : \E k \in DOMAIN menuDisplay.content :
                            menuDisplay.content[k] = Weekdays[d]

\* the line of the heading of weekday d in the overlay
HeadingShown(d) ==
    CHOOSE k \in DOMAIN menuDisplay.content : menuDisplay.content[k] = Weekdays[d]

\* the courses the overlay lists under weekday d
BucketShown(d) ==
    LET last == IF d = 5 THEN Len(menuDisplay.content) ELSE HeadingShown(d + 1) - 1
        lines == SubSeq(menuDisplay.content, HeadingShown(d) + 1, last)
    IN  IF lines = NoMenuPlaceholder THEN <<>> ELSE lines

\* C27: the courses of the single day are chunked evenly for every n: no
\* two of the five buckets differ in size by more than one.
C27_BucketsEven ==
    WeekShownInBuckets =>
        \A d, e \in 1..5 : Len(BucketShown(d)) - Len(BucketShown(e)) <= 1

\* what the handler of c shows for the answer its request got, whatever
\* else is under way
ShownFor(c) ==
    IF c = "daily"
    THEN DailyShown(menuDisplay, NameOf(BrowseOrder, calls[c].arg.id), calls[c]).overlay
    ELSE WeeklyShown(menuDisplay, NameOf(BrowseOrder, calls[c].arg.id), calls[c]).overlay

\* C25: menu responses are applied last-writer-wins without sequence
\* guarding: the handler of every response writes the overlay when it
\* resumes, also when its request was sent before one whose response is
\* already shown, so the overlay shows the response that came last and none
\* is dropped as stale.
C25_LastMenuResponseWins ==
    [][\A c \in {"daily", "weekly"} :
          (lastOp'.op = MenuOp(c) /\ calls[c].st \in {"resolved", "rejected"})
             => /\ menuDisplay' = ShownFor(c)
                /\ menuDisplay'.shown \/ lastOp'.threw]_vars

\* two requests were under way and the response of the one sent first came
\* last: the overlay shows the weekly menu of r1 over the daily menu asked
\* for after it
C25_Witness ==
    /\ menuLog.stale
    /\ menuLog.sent = <<>>
    /\ lastOp.op = "showWeeklyMenu"
    /\ lastOp.id = "r1"
    /\ menuDisplay.shown
    /\ menuDisplay.title = "A - menuWeek"
    /\ menuDisplay.content = <<"Maanantai", "Soup", "Tiistai", "noMenu">>

\* the in-memory token is the stored token entry, both absent together
TokenAgrees ==
    IF token = Null THEN store.token = Null ELSE store.token = token

\* the in-memory user is what the stored currentUser entry deserializes
\* to, both absent together
UserAgrees ==
    IF currentUser.ty = "null"
    THEN store.currentUser = TextAbsent
    ELSE /\ TextTruthy(store.currentUser)
         /\ JSONparse(store.currentUser).ok
         /\ JSONparse(store.currentUser).value = currentUser

\* C28: in every state reached through saveAuth, loadAuth, logout, the
\* favourite handler and the profile handler, with nobody else writing the
\* store, the in-memory token equals the stored token entry and the
\* in-memory user equals the deserialized currentUser entry, both absent
\* together.
C28_SessionAgreesWithStore ==
    page \in {"ready", "reloading"} => TokenAgrees /\ UserAgrees

\* C29: whenever no session is active (no in-memory current user: before
\* login, after logout, or after a loadAuth that activated none because the
\* stored user was missing or corrupt), the requests apiFetch issues carry
\* no Authorization header of its making.
C29_NoAuthorizationWithoutSession ==
    \A c \in Callers :
        (SentBy(c) /\ calls[c].st = "sent" /\ currentUser.ty # "obj")
            => calls[c].headers["Authorization"] = calls[c].opts.headers["Authorization"]

====
